---- MODULE Spec2Model ----
(***************************************************************************)
(* Tail pipelines of Felix-Alerts: big_liquidation.py and                  *)
(* stale_oracle_alerts.py.  Both watch a directory tree, keep a per-path   *)
(* byte offset and partial-line buffer, rebuild lines from newly appended  *)
(* bytes, parse each line as JSON and hand the record to the alert logic.  *)
(*                                                                         *)
(* Text is a sequence of symbols.  A symbol is one character ("x", "{",    *)
(* "}", "[", "]", " ", LF, CR, VT) or the token "L", which stands for the  *)
(* member text of an event-bearing record (for big_liquidation             *)
(* "liquidatedUser":..,"method":"backstop",..; for stale_oracle_alerts the *)
(* block_time/events members of a block with one stale market).  Every     *)
(* symbol is one byte of the file.                                         *)
(***************************************************************************)
EXTENDS Integers, Sequences, FiniteSets

VARIABLES
  pipeline,                  \* which daemon this run is
  READ_EXISTING_AT_START,    \* script_config['read_existing_at_start']
  READ_NEW_FILES_FROM_START, \* script_config['read_new_files_from_start']
  files,                     \* file system: path -> bytes, for existing paths
  offsets,                   \* TailHandler.offsets
  buffers,                   \* TailHandler.buffers
  consumed,                  \* history: text read so far for a registered path
  yielded,                   \* history: lines yielded so far for a registered path
  last,                      \* what the last handler invocation did
  writes,                    \* number of file-system changes so far
  USD_THRESHOLD,             \* big_liquidation: config usd_threshold
  THRESHOLD_SECONDS,         \* stale_oracle_alerts: config threshold_seconds
  MARKETS,                   \* stale_oracle_alerts: the MARKETS filter
  seen_keys,                 \* big_liquidation TailHandler.seen_keys
  seen_order,                \* big_liquidation TailHandler.seen_order
  alerted_blocks,            \* stale_oracle_alerts TailHandler.alerted_blocks
  alerted_order,             \* stale_oracle_alerts TailHandler.alerted_order
  sent,                      \* history: the calls of send_telegram_alert
  input,                     \* the argument a function is applied to
  result,                    \* what the function returned for input
  alert_5bps_timestamps,     \* depth.py monitor_liquidity_depth local list
  now,                       \* depth.py: the clock read by datetime.now()
  cycle,                     \* depth.py: what the last monitoring cycle did
  env,                       \* what the process finds: root, credentials
  pc,                        \* the statement the main thread is at
  walk,                      \* TailHandler.__init__: scan steps still to do
  started,                   \* observer.start() has been called
  event_queue,               \* watcher events queued for the observer thread
  handled,                   \* number of events the handler has been called for
  developer,                 \* history: the calls of send_developer_alert
  exited,                    \* how the process ended, NotExited while it runs
  RECONNECT_BASE_DELAY,      \* big_position: config reconnect_base_delay
  RECONNECT_MAX_DELAY,       \* big_position: config reconnect_max_delay
  reconnect_delay,           \* big_position stream_trades local
  ws,                        \* number of the connection attempt, 0 before one
  heartbeat_task,            \* the heartbeat tasks created, each with its state
  raising,                   \* the exception travelling up stream_trades
  cancel_requested,          \* runner has called worker.cancel()
  slept                      \* history: the reconnect waits taken

config == <<pipeline, READ_EXISTING_AT_START, READ_NEW_FILES_FROM_START>>

\* Settings read once when a module is loaded.
settings == <<USD_THRESHOLD, THRESHOLD_SECONDS, MARKETS>>

\* State of the record handling, of the function applications and of depth.py.
gate == <<seen_keys, seen_order, alerted_blocks, alerted_order, sent>>

applied == <<input, result>>

depth == <<alert_5bps_timestamps, now, cycle>>

\* State of the file tailing.
tail == <<files, offsets, buffers, consumed, yielded, last, writes>>

\* State of the process around the handler: main thread and observer.
process ==
  <<env, pc, walk, started, event_queue, handled, developer, exited>>

\* State of big_position's worker task stream_trades.
stream ==
  <<RECONNECT_BASE_DELAY, RECONNECT_MAX_DELAY, reconnect_delay, ws,
    heartbeat_task, raising, cancel_requested, slept>>

vars == <<config, settings, tail, gate, applied, depth, process, stream>>

\* ---------------------------------------------------------------- bounds
MaxFileLen == 4
MaxWrites == 3

\* --------------------------------------------------------------- symbols
LF == "LF"
CR == "CR"
VT == "VT"
SP == " "

Paths == {"A", "B", "C"}
Pipelines == {"big_liquidation", "stale_oracle_alerts"}

\* ----------------------------------------------------------- dict helpers
Get(d, k, default) == IF k \in DOMAIN d THEN d[k] ELSE default

Put(d, k, v) == [x \in (DOMAIN d) \cup {k} |-> IF x = k THEN v ELSE d[x]]

Pop(d, k) == [x \in (DOMAIN d) \ {k} |-> d[x]]

EmptyDict == [x \in {} |-> 0]

\* ----------------------------------------------------------- text helpers
\* Text-mode read with universal newlines: CR LF and a lone CR become LF.
RECURSIVE Translate(_)
Translate(bs) ==
  IF bs = <<>> THEN <<>>
  ELSE IF Head(bs) = CR
       THEN IF Len(bs) > 1 /\ bs[2] = LF
            THEN <<LF>> \o Translate(Tail(Tail(bs)))
            ELSE <<LF>> \o Translate(Tail(bs))
       ELSE <<Head(bs)>> \o Translate(Tail(bs))

\* Characters at which str.splitlines() breaks a line.
LineBreaks == {LF, CR, VT}

FirstBreak(s) ==
  IF \E i \in 1..Len(s) : s[i] \in LineBreaks
  THEN CHOOSE i \in 1..Len(s) :
         /\ s[i] \in LineBreaks
         /\ \A j \in 1..(i - 1) : s[j] \notin LineBreaks
  ELSE 0

\* str.splitlines(): CR LF counts as one break, no empty last line.
RECURSIVE splitlines(_)
splitlines(s) ==
  IF s = <<>> THEN <<>>
  ELSE LET i == FirstBreak(s) IN
       IF i = 0 THEN <<s>>
       ELSE LET k == IF s[i] = CR /\ i < Len(s) /\ s[i + 1] = LF
                     THEN i + 1 ELSE i
            IN <<SubSeq(s, 1, i - 1)>> \o splitlines(SubSeq(s, k + 1, Len(s)))

\* data.endswith(("\n", "\r"))
endswith(data) == data # <<>> /\ data[Len(data)] \in {LF, CR}

\* Characters str.strip() removes.
Whitespace == {SP, LF, CR, VT}

RECURSIVE lstrip(_)
lstrip(s) ==
  IF s # <<>> /\ Head(s) \in Whitespace THEN lstrip(Tail(s)) ELSE s

RECURSIVE rstrip(_)
rstrip(s) ==
  IF s # <<>> /\ s[Len(s)] \in Whitespace
  THEN rstrip(SubSeq(s, 1, Len(s) - 1)) ELSE s

strip(s) == rstrip(lstrip(s))

\* Mutant: every non-empty line is taken for the start of a JSON value.
startswith_any(s, c) == s # <<>>

startswith(s, c) == s # <<>> /\ Head(s) = c

\* ------------------------------------------------------------ json.loads
RECURSIVE SkipSpaces(_, _)
SkipSpaces(s, i) ==
  IF i <= Len(s) /\ s[i] = SP THEN SkipSpaces(s, i + 1) ELSE i

\* Index after the JSON value that starts at s[i], or 0 when there is none.
\* Values over the symbols: {} , {L} , [] , [value], with spaces allowed
\* between the tokens.
RECURSIVE ParseValue(_, _)
ParseValue(s, i) ==
  IF i > Len(s) THEN 0
  ELSE IF s[i] = "{"
  THEN LET j == SkipSpaces(s, i + 1) IN
       IF j > Len(s) THEN 0
       ELSE IF s[j] = "}" THEN j + 1
       ELSE IF s[j] = "L"
       THEN LET k == SkipSpaces(s, j + 1) IN
            IF k <= Len(s) /\ s[k] = "}" THEN k + 1 ELSE 0
       ELSE 0
  ELSE IF s[i] = "["
  THEN LET j == SkipSpaces(s, i + 1) IN
       IF j > Len(s) THEN 0
       ELSE IF s[j] = "]" THEN j + 1
       ELSE LET v == ParseValue(s, j) IN
            IF v = 0 THEN 0
            ELSE LET k == SkipSpaces(s, v) IN
                 IF k <= Len(s) /\ s[k] = "]" THEN k + 1 ELSE 0
  ELSE 0

JSONDecodeError == "JSONDecodeError"

\* json.loads(s) for a stripped line: the kind of value parsed.
\*   "record" a dict carrying the event members L, "dict" the empty dict,
\*   "list" a JSON array.
json_loads(s) ==
  IF ParseValue(s, 1) # Len(s) + 1 THEN JSONDecodeError
  ELSE IF s[1] = "[" THEN "list"
  ELSE IF \E i \in 1..Len(s) : s[i] = "L" THEN "record"
  ELSE "dict"

\* ------------------------------------------------------- _read_new_lines
\* Mutant: no reset on truncation, the read seeks to the stored offset.
StartOffset_noreset(last_off, size) == last_off

\* Where the read starts: the stored offset, or 0 after truncation/rotation.
StartOffset(last_off, size) == IF size < last_off THEN 0 ELSE last_off

\* Mutant: the number of bytes read is stored instead of the position.
tell_count(last_off, nread) == nread

\* f.tell() after f.seek(last_off) and f.read() of nread bytes.
tell(last_off, nread) == last_off + nread

\* Mutant: a fragment is kept only when the data also held a complete line.
KeptBuffer_dropped(data) ==
  LET lines == splitlines(data) IN
  IF ~endswith(data) /\ Len(lines) > 1 THEN lines[Len(lines)] ELSE <<>>

\* The buffer kept from data = buffer + chunk.
KeptBuffer(data) ==
  LET lines == splitlines(data) IN
  IF ~endswith(data)
  THEN IF lines # <<>> THEN lines[Len(lines)] ELSE data
  ELSE <<>>

\* The lines yielded from data = buffer + chunk.
CompleteLines(data) ==
  LET lines == splitlines(data) IN
  IF ~endswith(data)
  THEN IF lines # <<>> THEN SubSeq(lines, 1, Len(lines) - 1) ELSE <<>>
  ELSE lines

\* One call of _read_new_lines(path) on an existing file with bytes content:
\* the tables after the generator has run up to its first yield, and the
\* lines it will yield.
ReadNewLines(offs, bufs, path, content) ==
  LET stored == Get(offs, path, 0)
      size == Len(content)
      last_off == StartOffset(stored, size)
      bytes == SubSeq(content, last_off + 1, size)
      chunk == Translate(bytes)
      new_off == tell(last_off, Len(bytes))
      buf == Get(bufs, path, <<>>)
      data == buf \o chunk
  IN [ rotated |-> size < stored,
       last_off |-> last_off,
       bytes |-> bytes,
       offsets |-> Put(offs, path, new_off),
       buffers |-> IF data = <<>> THEN bufs
                   ELSE Put(bufs, path, KeptBuffer(data)),
       lines |-> IF data = <<>> THEN <<>> ELSE CompleteLines(data) ]

\* --------------------------------------------------------- _process_path
\* What the code does with a parsed record.  big_liquidation calls
\* rec.get("block_number") before its try block, so a list raises
\* AttributeError out of _process_path; stale_oracle_alerts calls
\* check_record inside try/except.
RecordRaises(pl, rec) == pl = "big_liquidation" /\ rec = "list"

\* The text a line that failed json.loads leaves in the buffer.
Accumulate(buf, s) == buf \o s

\* The loop body of _process_path for the remaining lines.
\* st = [buffers, taken, parsed, raised]: the buffer table, the lines taken
\* from the generator, the records json.loads returned, and whether an
\* exception left the loop.
RECURSIVE ProcessLines(_, _, _, _)
ProcessLines(pl, path, lines, st) ==
  IF lines = <<>> \/ st.raised THEN st
  ELSE LET line == Head(lines)
           s == strip(line)
           st1 == [st EXCEPT !.taken = Append(@, line)]
       IN IF s = <<>> THEN ProcessLines(pl, path, Tail(lines), st1)
          ELSE IF ~(startswith(s, "{") \/ startswith(s, "["))
          THEN ProcessLines(pl, path, Tail(lines), st1)
          ELSE LET rec == json_loads(s) IN
               IF rec = JSONDecodeError
               THEN ProcessLines(pl, path, Tail(lines),
                      [st1 EXCEPT !.buffers =
                         Put(@, path, Accumulate(Get(@, path, <<>>), s))])
               ELSE IF RecordRaises(pl, rec)
               THEN [st1 EXCEPT !.parsed = Append(@, rec), !.raised = TRUE]
               ELSE ProcessLines(pl, path, Tail(lines),
                      [st1 EXCEPT !.parsed = Append(@, rec)])

\* A handler that returns without reading: the tables stay as they are.
NotRead(offs, bufs) ==
  [offsets |-> offs, buffers |-> bufs, read |-> FALSE,
   rotated |-> FALSE, last_off |-> 0, bytes |-> <<>>,
   lines |-> <<>>, parsed |-> <<>>, raised |-> FALSE]

\* _process_path(path) from tables offs, bufs on file system fs.
ProcessPath(pl, offs, bufs, fs, path) ==
  IF path \notin DOMAIN fs
  THEN NotRead(offs, bufs)
  ELSE LET r == ReadNewLines(offs, bufs, path, fs[path])
           st == ProcessLines(pl, path, r.lines,
                   [buffers |-> r.buffers, taken |-> <<>>,
                    parsed |-> <<>>, raised |-> FALSE])
       IN [offsets |-> r.offsets, buffers |-> st.buffers, read |-> TRUE,
           rotated |-> r.rotated, last_off |-> r.last_off, bytes |-> r.bytes,
           lines |-> st.taken, parsed |-> st.parsed, raised |-> st.raised]

getsize(fs, path) == IF path \in DOMAIN fs THEN Len(fs[path]) ELSE 0

\* on_created(event): register, and process when reading new files from start.
Created(pl, fromStart, offs, bufs, fs, p) ==
  LET start == IF fromStart THEN 0 ELSE getsize(fs, p)
      offs1 == Put(offs, p, start)
      bufs1 == Put(bufs, p, <<>>)
  IN IF fromStart
     THEN ProcessPath(pl, offs1, bufs1, fs, p)
     ELSE NotRead(offs1, bufs1)

\* Mutant: the late registration gives the path an offset and no buffer.
Modified_offset_only(pl, offs, bufs, fs, p) ==
  LET known == p \in DOMAIN offs
      offs1 == IF known THEN offs ELSE Put(offs, p, getsize(fs, p))
  IN ProcessPath(pl, offs1, bufs, fs, p)

\* on_modified(event): late-register an unknown path at its size, then process.
Modified(pl, offs, bufs, fs, p) ==
  LET known == p \in DOMAIN offs
      offs1 == IF known THEN offs ELSE Put(offs, p, getsize(fs, p))
      bufs1 == IF known THEN bufs ELSE Put(bufs, p, <<>>)
  IN ProcessPath(pl, offs1, bufs1, fs, p)

\* ------------------------------------------- file-system failures
\* A byte that is not valid UTF-8, and the character U+FFFD that
\* errors="replace" decodes it to.
BAD == "\\xff"
REPL == "\\ufffd"

\* What can go wrong with the file while one handler runs:
\*   "vanish_stat"  it is removed between os.path.exists and os.path.getsize
\*                  of the registration in on_created / on_modified,
\*   "vanish_read"  it is removed between os.path.isfile of _process_path
\*                  and os.path.getsize / open of _read_new_lines,
\*   "unreadable"   open() is refused (PermissionError).
Faults == {"none", "vanish_stat", "vanish_read", "unreadable"}

\* f.read() of a text file: big_liquidation opens with encoding="utf-8",
\* errors="replace"; stale_oracle_alerts opens with the defaults, which
\* raise UnicodeDecodeError on an invalid byte.
decode(pl, bytes) ==
  IF pl = "big_liquidation"
  THEN [raises |-> "",
        text |-> [i \in 1..Len(bytes) |->
                    IF bytes[i] = BAD THEN REPL ELSE bytes[i]]]
  ELSE IF \E i \in 1..Len(bytes) : bytes[i] = BAD
  THEN [raises |-> "UnicodeDecodeError", text |-> <<>>]
  ELSE [raises |-> "", text |-> bytes]

\* A handler's outcome with the exception that left it and whether it
\* called _process_path.
Outcome(r, escaped, processed) ==
  [r |-> r, escaped |-> escaped, processed |-> processed]

\* _process_path(path) under failure f.  A failed read returns or raises
\* before self.offsets[path] is assigned and before the buffer is touched.
ProcessPathUnder(pl, f, offs, bufs, fs, path) ==
  IF path \notin DOMAIN fs
  THEN Outcome(NotRead(offs, bufs), "", TRUE)
  ELSE IF f \in {"vanish_read", "unreadable"}
  THEN Outcome(NotRead(offs, bufs),
               IF f = "unreadable" /\ pl # "big_liquidation"
               THEN "PermissionError" ELSE "", TRUE)
  ELSE LET last_off == StartOffset(Get(offs, path, 0), Len(fs[path]))
           d == decode(pl, SubSeq(fs[path], last_off + 1, Len(fs[path])))
       IN IF d.raises # ""
          THEN Outcome(NotRead(offs, bufs), d.raises, TRUE)
          ELSE Outcome(ProcessPath(pl, offs, bufs,
                         Put(fs, path,
                             SubSeq(fs[path], 1, last_off) \o d.text),
                         path),
                       "", TRUE)

\* on_created(event) under failure f.
CreatedUnder(pl, fromStart, f, offs, bufs, fs, p) ==
  IF f = "vanish_stat"
  THEN Outcome(NotRead(offs, bufs), "FileNotFoundError", FALSE)
  ELSE LET start == IF fromStart THEN 0 ELSE getsize(fs, p)
           offs1 == Put(offs, p, start)
           bufs1 == Put(bufs, p, <<>>)
       IN IF fromStart
          THEN ProcessPathUnder(pl, f, offs1, bufs1, fs, p)
          ELSE Outcome(NotRead(offs1, bufs1), "", FALSE)

\* on_modified(event) under failure f.
ModifiedUnder(pl, f, offs, bufs, fs, p) ==
  LET known == p \in DOMAIN offs
      offs1 == IF known THEN offs ELSE Put(offs, p, getsize(fs, p))
      bufs1 == IF known THEN bufs ELSE Put(bufs, p, <<>>)
  IN IF f = "vanish_stat"
     THEN Outcome(NotRead(offs, bufs), "FileNotFoundError", FALSE)
     ELSE ProcessPathUnder(pl, f, offs1, bufs1, fs, p)

\* Whether failure f can happen to path p in handler op: the file exists
\* when the handler starts, the handler makes the call that fails.
CanFail(op, fromStart, f, offs, fs, p) ==
  CASE f = "none" -> TRUE
    [] f = "vanish_stat" ->
         p \in DOMAIN fs /\ (op = "created" \/ p \notin DOMAIN offs)
    [] OTHER -> p \in DOMAIN fs /\ (op = "modified" \/ fromStart)

\* The file system when the handler has finished.
FilesAfter(f, fs, p) ==
  IF f \in {"vanish_stat", "vanish_read"} THEN Pop(fs, p) ELSE fs

\* Mutant: the entry is copied to new and old keeps its entry.
on_moved_copy(d, old, new, default) == Put(d, new, Get(d, old, default))

\* on_moved(event) of big_liquidation on one table.
on_moved(d, old, new, default) == Put(Pop(d, old), new, Get(d, old, default))

\* Mutant: a move of a path that is in neither table is ignored.
Movedto_known(pl, offs, bufs, old, new) ==
  IF pl = "big_liquidation" /\ old \in DOMAIN offs
  THEN [offsets |-> on_moved(offs, old, new, 0),
        buffers |-> on_moved(bufs, old, new, <<>>)]
  ELSE [offsets |-> offs, buffers |-> bufs]

\* The two tables after MovedTo(old, new).  stale_oracle_alerts defines no
\* on_moved: the handler inherited from watchdog does nothing.
Movedto(pl, offs, bufs, old, new) ==
  IF pl = "big_liquidation"
  THEN [offsets |-> on_moved(offs, old, new, 0),
        buffers |-> on_moved(bufs, old, new, <<>>)]
  ELSE [offsets |-> offs, buffers |-> bufs]

\* The file system after rename(old, new).
Rename(fs, old, new) == Put(Pop(fs, old), new, fs[old])

\* ------------------------------------------------------------------ Init
Idle == [op |-> "init", path |-> "", dest |-> "", carried |-> FALSE,
         read |-> FALSE, rotated |-> FALSE, last_off |-> 0, nread |-> 0,
         lines |-> <<>>, parsed |-> <<>>, raised |-> FALSE]

\* MARKETS is None when MARKETS_STR is empty, else the set of its names.
NoMarkets == [none |-> TRUE, syms |-> {}]

OnlyMarkets(syms) == [none |-> FALSE, syms |-> syms]

\* The settings as one configuration gives them; tailing reads none of them.
SettingsOf(usd, secs, markets) ==
  /\ USD_THRESHOLD = usd
  /\ THRESHOLD_SECONDS = secs
  /\ MARKETS = markets

\* Both TailHandler.__init__ methods start with empty memories, and nothing
\* has been sent yet.
GateIdle ==
  /\ seen_keys = {}
  /\ seen_order = <<>>
  /\ alerted_blocks = {}
  /\ alerted_order = <<>>
  /\ sent = <<>>

\* No function has been applied.
AppliedIdle ==
  /\ input = <<>>
  /\ result = <<>>

\* monitor_liquidity_depth before its first cycle.
NoCycle == [n |-> 0, rows |-> FALSE, low5 |-> FALSE, low10 |-> FALSE,
            low50 |-> FALSE, low100 |-> FALSE, before |-> <<>>,
            alerts |-> <<>>, dispatched |-> FALSE, ok |-> FALSE]

DepthIdle ==
  /\ alert_5bps_timestamps = <<>>
  /\ now = 0
  /\ cycle = NoCycle

\* The process has not ended.
NotExited == [by |-> "", at |-> "", reports |-> 0, code |-> 0]

\* The environment with the root directory present and all credentials set.
FullEnv == [root |-> TRUE, token |-> TRUE]

\* A handler taken on its own: the observer runs, the main thread sleeps.
ProcessIdle ==
  /\ env = FullEnv
  /\ pc = "sleep"
  /\ walk = <<>>
  /\ started = TRUE
  /\ event_queue = <<>>
  /\ handled = 0
  /\ developer = <<>>
  /\ exited = NotExited

\* big_position does not run.
StreamIdle ==
  /\ RECONNECT_BASE_DELAY = 1
  /\ RECONNECT_MAX_DELAY = 1
  /\ reconnect_delay = 1
  /\ ws = 0
  /\ heartbeat_task = <<>>
  /\ raising = ""
  /\ cancel_requested = FALSE
  /\ slept = <<>>

\* TailHandler.__init__: every existing file is registered with offset 0 or
\* its size and an empty buffer (the stale-oracle focus file gets the same
\* values again).  Initially file A may exist with one of the contents.
InitOver(contents) ==
  /\ pipeline \in Pipelines
  /\ READ_EXISTING_AT_START \in BOOLEAN
  /\ READ_NEW_FILES_FROM_START \in BOOLEAN
  /\ files \in {EmptyDict} \cup {[p \in {"A"} |-> c] : c \in contents}
  /\ offsets = [p \in DOMAIN files |->
                  IF READ_EXISTING_AT_START THEN 0 ELSE Len(files[p])]
  /\ buffers = [p \in DOMAIN files |-> <<>>]
  /\ consumed = [p \in DOMAIN files |-> <<>>]
  /\ yielded = [p \in DOMAIN files |-> <<>>]
  /\ last = Idle
  /\ writes = 0
  /\ SettingsOf(2, 2, NoMarkets)
  /\ GateIdle
  /\ AppliedIdle
  /\ DepthIdle
  /\ ProcessIdle
  /\ StreamIdle

\* ------------------------------------------------- file-system changes
\* A writer appends the bytes w to a file, creating the file if needed.
AppendBytes(p, w) ==
  /\ writes < MaxWrites
  /\ Len(Get(files, p, <<>>)) + Len(w) <= MaxFileLen
  /\ files' = Put(files, p, Get(files, p, <<>>) \o w)
  /\ writes' = writes + 1
  /\ UNCHANGED <<config, offsets, buffers, consumed, yielded, last>>
  /\ UNCHANGED <<settings, gate, applied, depth, process, stream>>

\* A file is truncated to empty (rotation in place).
Truncate(p) ==
  /\ writes < MaxWrites
  /\ p \in DOMAIN files
  /\ files[p] # <<>>
  /\ files' = Put(files, p, <<>>)
  /\ writes' = writes + 1
  /\ UNCHANGED <<config, offsets, buffers, consumed, yielded, last>>
  /\ UNCHANGED <<settings, gate, applied, depth, process, stream>>

\* A file is deleted.
Remove(p) ==
  /\ writes < MaxWrites
  /\ p \in DOMAIN files
  /\ files' = Pop(files, p)
  /\ writes' = writes + 1
  /\ UNCHANGED <<config, offsets, buffers, consumed, yielded, last>>
  /\ UNCHANGED <<settings, gate, applied, depth, process, stream>>

\* -------------------------------------------------------------- handlers
Done(op, p, r) ==
  [op |-> op, path |-> p, dest |-> "", carried |-> FALSE, read |-> r.read,
   rotated |-> r.rotated, last_off |-> r.last_off, nread |-> Len(r.bytes),
   lines |-> r.lines, parsed |-> r.parsed, raised |-> r.raised]

\* The watcher delivers Created(p).
OnCreated(p) ==
  LET r == Created(pipeline, READ_NEW_FILES_FROM_START,
                   offsets, buffers, files, p)
  IN /\ offsets' = r.offsets
     /\ buffers' = r.buffers
     /\ consumed' = Put(consumed, p, r.bytes)
     /\ yielded' = Put(yielded, p, r.lines)
     /\ last' = Done("created", p, r)
     /\ UNCHANGED <<config, files, writes>>
     /\ UNCHANGED <<settings, gate, applied, depth, process, stream>>

\* The watcher delivers Modified(p).
OnModified(p) ==
  LET r == Modified(pipeline, offsets, buffers, files, p)
  IN /\ offsets' = r.offsets
     /\ buffers' = r.buffers
     /\ consumed' = Put(consumed, p, Get(consumed, p, <<>>) \o r.bytes)
     /\ yielded' = Put(yielded, p, Get(yielded, p, <<>>) \o r.lines)
     /\ last' = Done("modified", p, r)
     /\ UNCHANGED <<config, files, writes>>
     /\ UNCHANGED <<settings, gate, applied, depth, process, stream>>

\* The file old is renamed to new and the watcher delivers MovedTo(old, new).
OnMoved(old, new) ==
  LET r == Movedto(pipeline, offsets, buffers, old, new)
  IN /\ writes < MaxWrites
     /\ old # new
     /\ old \in DOMAIN files
     /\ files' = Rename(files, old, new)
     /\ writes' = writes + 1
     /\ offsets' = r.offsets
     /\ buffers' = r.buffers
     /\ IF pipeline = "big_liquidation"
        THEN /\ consumed' = on_moved(consumed, old, new, <<>>)
             /\ yielded' = on_moved(yielded, old, new, <<>>)
        ELSE UNCHANGED <<consumed, yielded>>
     /\ last' = [Idle EXCEPT !.op = "moved", !.path = old, !.dest = new,
                              !.carried = old \in DOMAIN offsets]
     /\ UNCHANGED config
     /\ UNCHANGED <<settings, gate, applied, depth, process, stream>>

\* The watcher delivers Created(p) and failure f happens while it is handled.
OnCreatedUnder(p, f) ==
  LET o == CreatedUnder(pipeline, READ_NEW_FILES_FROM_START, f,
                        offsets, buffers, files, p)
  IN /\ CanFail("created", READ_NEW_FILES_FROM_START, f, offsets, files, p)
     /\ files' = FilesAfter(f, files, p)
     /\ offsets' = o.r.offsets
     /\ buffers' = o.r.buffers
     /\ consumed' = IF o.escaped = "FileNotFoundError" THEN consumed
                    ELSE Put(consumed, p, o.r.bytes)
     /\ yielded' = IF o.escaped = "FileNotFoundError" THEN yielded
                   ELSE Put(yielded, p, o.r.lines)
     /\ last' = Done("created", p, o.r)
     /\ input' = f
     /\ result' = [escaped |-> o.escaped, processed |-> o.processed]
     /\ UNCHANGED <<config, writes, settings, gate, depth, process, stream>>

\* The watcher delivers Modified(p) and failure f happens while it is
\* handled.
OnModifiedUnder(p, f) ==
  LET o == ModifiedUnder(pipeline, f, offsets, buffers, files, p)
  IN /\ CanFail("modified", READ_NEW_FILES_FROM_START, f, offsets, files, p)
     /\ files' = FilesAfter(f, files, p)
     /\ offsets' = o.r.offsets
     /\ buffers' = o.r.buffers
     /\ consumed' = Put(consumed, p, Get(consumed, p, <<>>) \o o.r.bytes)
     /\ yielded' = Put(yielded, p, Get(yielded, p, <<>>) \o o.r.lines)
     /\ last' = Done("modified", p, o.r)
     /\ input' = f
     /\ result' = [escaped |-> o.escaped, processed |-> o.processed]
     /\ UNCHANGED <<config, writes, settings, gate, depth, process, stream>>

\* ------------------------------------------------------- specifications
\* One watched file, written byte by byte with every kind of line break.
LineWrites == {<<"x">>, <<LF>>, <<CR>>, <<VT>>}

NextLines ==
  \/ \E w \in LineWrites : AppendBytes("A", w)
  \/ Truncate("A")
  \/ Remove("A")
  \/ OnCreated("A")
  \/ OnModified("A")

SpecLines == InitOver({<<"x", LF, "x">>}) /\ [][NextLines]_vars

\* One watched file holding JSON lines.
JsonWrites == {<<"{">>, <<"{", LF>>, <<"}", LF>>, <<"L", "}", LF>>,
               <<"[", "]", LF>>, <<SP, "x", LF>>}

NextJson ==
  \/ \E w \in JsonWrites : AppendBytes("A", w)
  \/ Truncate("A")
  \/ OnCreated("A")
  \/ OnModified("A")

SpecJson == InitOver({<<"{", LF>>}) /\ [][NextJson]_vars

\* One watched file in which every line begins with "{" and is malformed.
MalformedWrites == {<<"{">>, <<"{", LF>>, <<"{", "{", LF>>}

NextMalformed ==
  \/ \E w \in MalformedWrites : AppendBytes("A", w)
  \/ Truncate("A")
  \/ OnCreated("A")
  \/ OnModified("A")

SpecMalformed == InitOver({<<"{", LF, "{", LF>>}) /\ [][NextMalformed]_vars

\* One watched file; it may vanish, be unreadable or hold an invalid byte
\* while a handler runs.
FaultWrites == {<<"x", LF>>, <<BAD, LF>>, <<"{", "}", LF>>}

NextFaults ==
  \/ \E w \in FaultWrites : AppendBytes("A", w)
  \/ Truncate("A")
  \/ \E f \in Faults : OnCreatedUnder("A", f)
  \/ \E f \in Faults : OnModifiedUnder("A", f)

SpecFaults == InitOver({<<"x", LF>>}) /\ [][NextFaults]_vars

\* One watched file that exists at startup and is only appended to
\* afterwards, byte by byte, with Modified events in between.
Existing == <<"x">>

NextAppend ==
  \/ \E w \in LineWrites : AppendBytes("A", w)
  \/ OnModified("A")

InitAppend == InitOver({Existing}) /\ "A" \in DOMAIN files

SpecAppend == InitAppend /\ [][NextAppend]_vars

\* Two paths: files are written, truncated and renamed between them.
MoveWrites == {<<"x">>, <<"x", LF>>}

Next ==
  \/ \E p \in {"A", "B"}, w \in MoveWrites : AppendBytes(p, w)
  \/ \E p \in {"A", "B"} : Truncate(p)
  \/ \E p \in {"A", "B"} : OnCreated(p)
  \/ \E p \in {"A", "B"} : OnModified(p)
  \/ \E old \in {"A", "B"}, new \in {"A", "B"} : OnMoved(old, new)

Spec == InitOver({<<"x", LF, "x">>}) /\ [][Next]_vars

\* Three paths: file A is written and files are renamed between the paths.
NextMove ==
  \/ AppendBytes("A", <<"x", LF, "x">>)
  \/ \E p \in Paths : OnCreated(p)
  \/ \E p \in Paths : OnModified(p)
  \/ \E old \in Paths, new \in Paths : OnMoved(old, new)

SpecMove == InitOver({<<"x", LF, "x">>}) /\ [][NextMove]_vars

\* ================================================================ claims
\* What one read of the whole text t would yield and keep.
OneRead(t) == IF t = <<>> THEN <<>> ELSE CompleteLines(t)

\* C1: chunking independence.  However the bytes consumed for a path were
\* cut into reads, the lines yielded so far are the lines one read of the
\* same bytes yields.
C1_ChunkingIndependent ==
  \A p \in DOMAIN yielded : yielded[p] = OneRead(Translate(consumed[p]))

\* The text after the last line terminator of t (all of t when it has none).
RECURSIVE Fragment(_)
Fragment(t) ==
  IF t = <<>> THEN <<>>
  ELSE IF t[Len(t)] \in LineBreaks THEN <<>>
  ELSE Fragment(SubSeq(t, 1, Len(t) - 1)) \o <<t[Len(t)]>>

\* C2: the buffer of a path is exactly the text that follows the last line
\* terminator of the bytes consumed so far for the path, also after a line
\* failed JSON parsing.
C2_BufferIsFragment ==
  \A p \in DOMAIN buffers :
    p \in DOMAIN consumed => buffers[p] = Fragment(Translate(consumed[p]))

\* The records json.loads returns for the well-formed JSON lines of lines.
RECURSIVE ParsedOf(_)
ParsedOf(lines) ==
  IF lines = <<>> THEN <<>>
  ELSE LET s == strip(Head(lines))
           ok == /\ (startswith(s, "{") \/ startswith(s, "["))
                 /\ json_loads(s) # JSONDecodeError
       IN (IF ok THEN <<json_loads(s)>> ELSE <<>>) \o ParsedOf(Tail(lines))

\* The lines of the path of the last read that were completed by the bytes
\* of that read, each taken on its own.
FreshLines ==
  LET t == consumed[last.path]
      n == Len(t) - last.nread
      all == OneRead(Translate(t))
      before == OneRead(Translate(SubSeq(t, 1, n)))
  IN SubSeq(all, Len(before) + 1, Len(all))

\* C3: a line that failed JSON parsing does not affect later lines: the
\* well-formed JSON lines completed by a read are parsed on their own,
\* whatever failed before them.
C3_LaterLinesParsed ==
  (last.read /\ ~last.raised /\ ParsedOf(FreshLines) # <<>>)
    => last.parsed = ParsedOf(FreshLines)

RECURSIVE JoinStripped(_)
JoinStripped(lines) ==
  IF lines = <<>> THEN <<>>
  ELSE strip(Head(lines)) \o JoinStripped(Tail(lines))

\* t is one JSON value written across several lines, the last one ended.
MultiLineValue(t) ==
  LET ls == splitlines(t) IN
  /\ endswith(t)
  /\ Len(ls) >= 2
  /\ startswith(strip(ls[1]), "{") \/ startswith(strip(ls[1]), "[")
  /\ json_loads(strip(ls[1])) = JSONDecodeError
  /\ json_loads(JoinStripped(ls)) # JSONDecodeError

\* C4: merge-and-retry.  When the bytes consumed for a path are a JSON value
\* written across several lines, the read that consumed its last line has
\* parsed the combined text.
C4_MultiLineValueParsed ==
  (last.read /\ last.nread > 0 /\ ~last.raised
     /\ MultiLineValue(Translate(consumed[last.path])))
    => last.parsed =
         <<json_loads(JoinStripped(splitlines(Translate(consumed[last.path]))))>>

\* C5: no handler invocation lets an exception escape because of the content
\* of a line that parses as JSON.
C5_NoExceptionEscapes == ~last.raised

\* C6 as stated: the stored offset of a path decreases only in a step that
\* processed the path and observed the file smaller than the stored offset.
C6_OffsetMonotone ==
  [][\A p \in (DOMAIN offsets) \cap (DOMAIN offsets') :
       offsets'[p] < offsets[p]
         => /\ last'.path = p
            /\ last'.rotated
            /\ p \in DOMAIN files
            /\ Len(files[p]) < offsets[p]]_vars

\* C6 amended: the stored offset of a path decreases only in a Modified step
\* that observed the file smaller than the stored offset, in a Created step
\* for the path (it is registered again) or in a MovedTo step onto the path
\* (it takes the entry of the source); it is never negative.
C6_OffsetMonotoneAmended ==
  [][/\ \A p \in DOMAIN offsets' : offsets'[p] \in Nat
     /\ \A p \in (DOMAIN offsets) \cap (DOMAIN offsets') :
          offsets'[p] < offsets[p]
            => \/ /\ last'.op = "modified"
                  /\ last'.path = p
                  /\ last'.rotated
                  /\ p \in DOMAIN files
                  /\ Len(files[p]) < offsets[p]
                  /\ last'.last_off = 0
               \/ last'.op = "created" /\ last'.path = p
               \/ last'.op = "moved" /\ last'.dest = p]_vars

\* A Modified step lowered the offset of a path after a truncation.
C6_Witness ==
  /\ last.op = "modified"
  /\ last.rotated
  /\ last.nread > 0
  /\ offsets[last.path] = last.nread

\* C7: Modified for a known path whose file ends at the stored offset yields
\* no line and leaves both tables as they are, whatever the buffer holds, so
\* delivering it again changes nothing either.
C7_ModifiedIdempotent ==
  [][\A p \in Paths :
       (/\ OnModified(p)
        /\ p \in DOMAIN offsets
        /\ p \in DOMAIN files
        /\ Len(files[p]) = offsets[p])
         => /\ last'.lines = <<>>
            /\ last'.nread = 0
            /\ offsets' = offsets
            /\ buffers' = buffers]_vars

\* Modified was delivered with nothing new to read while the buffer held a
\* fragment.
C7_Witness ==
  /\ last.op = "modified"
  /\ last.read
  /\ ~last.rotated
  /\ last.nread = 0
  /\ last.path \in DOMAIN buffers
  /\ buffers[last.path] # <<>>

C9_RenamePreservesState ==
  [][\A old \in Paths, new \in Paths :
       (OnMoved(old, new) /\ old \in DOMAIN offsets)
         => \A N \in MoveWrites :
              Modified(pipeline, offsets', buffers',
                       Put(files', new, files'[new] \o N), new).lines
                = Modified(pipeline, offsets, buffers,
                           Put(files, old, files[old] \o N), old).lines]_vars

\* C10: MovedTo(old, new) in big_liquidation for a known path old moves the
\* entry of old to new in one step: new has the offset and buffer old had,
\* old is in neither table, every other path keeps its entry.
C10_MovedTransfersEntry ==
  [][\A old \in Paths, new \in Paths :
       (/\ OnMoved(old, new)
        /\ pipeline = "big_liquidation"
        /\ old \in DOMAIN offsets
        /\ old \in DOMAIN buffers)
         => /\ new \in DOMAIN offsets' /\ offsets'[new] = offsets[old]
            /\ new \in DOMAIN buffers' /\ buffers'[new] = buffers[old]
            /\ old \notin DOMAIN offsets'
            /\ old \notin DOMAIN buffers'
            /\ \A q \in Paths \ {old, new} :
                 /\ q \in DOMAIN offsets' <=> q \in DOMAIN offsets
                 /\ q \in DOMAIN buffers' <=> q \in DOMAIN buffers
                 /\ q \in DOMAIN offsets => offsets'[q] = offsets[q]
                 /\ q \in DOMAIN buffers => buffers'[q] = buffers[q]]_vars

\* big_liquidation moved an entry with a tail position and a fragment while a
\* third path was registered.
C10_Witness ==
  /\ pipeline = "big_liquidation"
  /\ last.op = "moved"
  /\ last.dest \in DOMAIN offsets
  /\ offsets[last.dest] > 0
  /\ buffers[last.dest] # <<>>
  /\ last.path \notin DOMAIN offsets
  /\ \E q \in Paths \ {last.path, last.dest} :
       q \in DOMAIN offsets /\ offsets[q] > 0

\* C21: every file-system failure during event handling is caught inside
\* the handler.  No exception leaves on_created, on_modified or
\* _process_path, and a read that failed leaves the offset and the buffer
\* the path had when the read began.
C21_FailuresCaught ==
  /\ [](result # <<>> => result.escaped = "")
  /\ [][\A f \in Faults \ {"none"} :
         OnModifiedUnder("A", f) /\ "A" \in DOMAIN offsets
           => /\ offsets' = offsets
              /\ buffers' = buffers]_vars

\* C23: Created(path) sets the buffer of the path to empty and its offset to
\* 0 when READ_NEW_FILES_FROM_START is set, else to the size of the file (0
\* when the file no longer exists), and it processes the file in the same
\* step if and only if READ_NEW_FILES_FROM_START is set.
C23_Created ==
  [][\A f \in Faults :
       OnCreatedUnder("A", f)
         => /\ "A" \in DOMAIN offsets'
            /\ "A" \in DOMAIN buffers'
            /\ result'.processed = READ_NEW_FILES_FROM_START
            /\ IF last'.read
               THEN /\ READ_NEW_FILES_FROM_START
                    /\ last'.last_off = 0
                    /\ last'.nread = Len(files["A"])
                    /\ offsets'["A"] = Len(files["A"])
               ELSE /\ offsets'["A"] = IF READ_NEW_FILES_FROM_START THEN 0
                                       ELSE getsize(files', "A")
                    /\ buffers'["A"] = <<>>]_vars

\* C24: Modified(path) for a path absent from the offset table registers it
\* with the size of the file as offset and an empty buffer and then
\* processes it, so the step yields no line from the bytes the file held;
\* for a path in the table the stored offset and buffer are used.
C24_Modified ==
  [][\A f \in Faults :
       OnModifiedUnder("A", f)
         => IF "A" \notin DOMAIN offsets
            THEN /\ "A" \in DOMAIN offsets'
                 /\ "A" \in DOMAIN buffers'
                 /\ offsets'["A"] = getsize(files, "A")
                 /\ buffers'["A"] = <<>>
                 /\ result'.processed
                 /\ last'.nread = 0
                 /\ last'.lines = <<>>
            ELSE /\ result'.processed
                 /\ last'.read
                      => /\ last'.last_off
                              = StartOffset(offsets["A"], Len(files["A"]))
                         /\ offsets'["A"] = Len(files["A"])]_vars

\* C28: the text accumulated for a path after JSON parse failures is
\* bounded by a fixed maximum, also for a file whose every line begins with
\* "{" and is malformed.  The code names no maximum; the most generous one
\* the bounds admit is taken, the size of the largest file: the buffer of a
\* path never holds more characters than that.
C28_BufferBounded ==
  \A p \in DOMAIN buffers : Len(buffers[p]) <= MaxFileLen

\* A line the loop of _process_path passes over: empty after stripping, or
\* beginning with neither "{" nor "[".
Ignored(line) ==
  LET s == strip(line) IN s = <<>> \/ s[1] \notin {"{", "["}

\* What _read_new_lines left in the tables in the step of handler op on p.
ReadOf(op, p) ==
  LET fresh == op = "created" \/ p \notin DOMAIN offsets
      start == IF op = "created" THEN 0 ELSE getsize(files, p)
  IN ReadNewLines(IF fresh THEN Put(offsets, p, start) ELSE offsets,
                  IF fresh THEN Put(buffers, p, <<>>) ELSE buffers,
                  p, files[p])

\* C30: a line that is empty after stripping or begins with neither "{" nor
\* "[" is ignored.  A handler step that read a file ends with the tables
\* and the parsed records it would have ended with had the ignored lines
\* not been among the lines read; when every line read is ignored, no
\* record is parsed and the offset and the buffer are exactly as
\* _read_new_lines left them.
C30_IgnoredLines ==
  [][\A p \in Paths :
       ((OnCreated(p) \/ OnModified(p)) /\ last'.read)
         => LET r == ReadOf(last'.op, p)
                kept == SelectSeq(last'.lines, LAMBDA l : ~Ignored(l))
                st == ProcessLines(pipeline, p, kept,
                        [buffers |-> r.buffers, taken |-> <<>>,
                         parsed |-> <<>>, raised |-> FALSE])
            IN /\ offsets' = r.offsets
               /\ buffers' = st.buffers
               /\ last'.parsed = st.parsed
               /\ (kept = <<>>)
                    => /\ buffers' = r.buffers
                       /\ last'.parsed = <<>>]_vars

\* A read yielded one line, which is not JSON, and kept a fragment: no
\* record was parsed and the fragment is all the buffer holds.
C30_Witness ==
  /\ last.read
  /\ Len(last.lines) = 1
  /\ Ignored(last.lines[1])
  /\ strip(last.lines[1]) # <<>>
  /\ last.parsed = <<>>
  /\ buffers[last.path] = <<"{">>

\* The offset __init__ registered the file that existed at startup with.
Registered == IF READ_EXISTING_AT_START THEN 0 ELSE Len(Existing)

\* The text written to p after its registration offset, as a read sees it.
Written(p) == Translate(SubSeq(files[p], Registered + 1, Len(files[p])))

\* C31: no loss and no duplication while tailing.  For a registered path
\* that is only appended to, after every Modified event the lines yielded so
\* far are exactly the terminator-ended lines written after the registration
\* offset, once each and in file order, the stored offset is the end of the
\* file and the buffer is the unterminated tail.
C31_NoLossNoDuplication ==
  [][OnModified("A")
       => /\ yielded'["A"] = OneRead(Written("A"))
          /\ offsets'["A"] = Len(files["A"])
          /\ buffers'["A"] = Fragment(Written("A"))]_vars

\* C32: after a truncation reset every yielded line is made of the file's
\* new content only.  A Modified step that finds the file smaller than the
\* stored offset yields the lines of the new content and keeps its
\* unterminated tail: a fragment buffered before the truncation is in neither.
C32_TruncationDropsFragment ==
  [][\A p \in Paths :
       (/\ OnModified(p)
        /\ p \in DOMAIN offsets
        /\ p \in DOMAIN files
        /\ Len(files[p]) < offsets[p])
         => /\ last'.lines = OneRead(Translate(files[p]))
            /\ buffers'[p] = Fragment(Translate(files[p]))]_vars

\* C34: MovedTo(old, new) in big_liquidation for a path old that is in no
\* table registers new with offset 0 and an empty buffer, whatever new had,
\* and the next Modified(new) reads the destination file from its first
\* byte to its end under every setting of the two start flags.
C34_MovedUnknown ==
  /\ [][\A old \in Paths, new \in Paths :
          (/\ OnMoved(old, new)
           /\ pipeline = "big_liquidation"
           /\ old \notin DOMAIN offsets)
            => /\ new \in DOMAIN offsets' /\ offsets'[new] = 0
               /\ new \in DOMAIN buffers' /\ buffers'[new] = <<>>]_vars
  /\ [][\A p \in Paths :
          (/\ OnModified(p)
           /\ pipeline = "big_liquidation"
           /\ last.op = "moved" /\ last.dest = p /\ ~last.carried
           /\ p \in DOMAIN files)
            => /\ last'.read
               /\ ~last'.rotated
               /\ last'.last_off = 0
               /\ last'.nread = Len(files[p])
               /\ offsets'[p] = Len(files[p])]_vars

\* With both start flags off, big_liquidation handled the move of an
\* unregistered file onto a path and the destination, which holds data, is
\* registered at offset 0.
C34_Witness ==
  /\ pipeline = "big_liquidation"
  /\ ~READ_EXISTING_AT_START
  /\ ~READ_NEW_FILES_FROM_START
  /\ last.op = "moved"
  /\ ~last.carried
  /\ last.dest \in DOMAIN files
  /\ files[last.dest] # <<>>
  /\ offsets[last.dest] = 0
  /\ buffers[last.dest] = <<>>

\* C40: the offset table and the buffer table have the same keys in every
\* state: after construction and after every Created, Modified and MovedTo
\* handler, in both pipelines.
C40_SameKeys == DOMAIN offsets = DOMAIN buffers

\* Both tables hold two paths: one registered late by a Modified event for
\* a path with no file, the other with a fragment kept in its buffer.
C40_Witness ==
  /\ last.op = "modified"
  /\ last.path \notin DOMAIN files
  /\ Cardinality(DOMAIN offsets) = 2
  /\ last.path \in DOMAIN offsets
  /\ \E p \in DOMAIN buffers : buffers[p] # <<>>

\* ======================================================= big_liquidation
\* ---------------------------------------------------------- JSON values
\* A value of a parsed record: None (also a missing key), a string or a
\* number.
None == [t |-> "none", n |-> 0, s |-> ""]

Str(s) == [t |-> "str", n |-> 0, s |-> s]

Num(n) == [t |-> "num", n |-> n, s |-> ""]

\* Python truthiness of a value.
Truthy(x) ==
  CASE x.t = "none" -> FALSE
    [] x.t = "str" -> x.s # ""
    [] OTHER -> x.n # 0

\* str.lower() on the method names that occur.
lower(s) ==
  CASE s \in {"backstop", "Backstop", "BACKSTOP"} -> "backstop"
    [] s \in {"market", "Market", "MARKET"} -> "market"
    [] OTHER -> s

\* ------------------------------------------------------------- Decimal
\* A Decimal: a finite number, a finite number of 10^26 or more ("huge",
\* more digits than the context precision lets quantize keep), Infinity or
\* NaN; NoDecimal is the None that _to_decimal returns.
Fin(n) == [t |-> "fin", n |-> n]

Huge == [t |-> "huge", n |-> 0]

Infinity == [t |-> "inf", n |-> 0]

NaN == [t |-> "nan", n |-> 0]

NoDecimal == [t |-> "none", n |-> 0]

InvalidOperation == [t |-> "InvalidOperation", n |-> 0]

\* The numerals that occur as strings.
Numerals == {"0", "1", "2", "3"}

NumeralValue(s) ==
  CASE s = "0" -> 0 [] s = "1" -> 1 [] s = "2" -> 2 [] OTHER -> 3

\* Decimal(str(x)), None when the constructor rejects the text.
_to_decimal(x) ==
  CASE x.t = "num" -> Fin(x.n)
    [] x.t = "str" /\ x.s \in Numerals -> Fin(NumeralValue(x.s))
    [] x.t = "str" /\ x.s = "1e26" -> Huge
    [] x.t = "str" /\ x.s = "Infinity" -> Infinity
    [] x.t = "str" /\ x.s = "NaN" -> NaN
    [] OTHER -> NoDecimal

\* Decimal.__mul__ on non-negative operands: NaN propagates, 0 * Infinity
\* signals InvalidOperation.
Mul(a, b) ==
  CASE a.t = "nan" \/ b.t = "nan" -> NaN
    [] a.t = "inf" \/ b.t = "inf" ->
         IF a = Fin(0) \/ b = Fin(0) THEN InvalidOperation ELSE Infinity
    [] a.t = "huge" \/ b.t = "huge" ->
         IF a = Fin(0) \/ b = Fin(0) THEN Fin(0) ELSE Huge
    [] OTHER -> Fin(a.n * b.n)

\* Decimal.__gt__ against a finite threshold; "raise" for NaN, whose ordering
\* comparisons signal InvalidOperation.
Gt(a, usd) ==
  CASE a.t = "nan" -> "raise"
    [] a.t \in {"inf", "huge"} -> "true"
    [] OTHER -> IF a.n > usd THEN "true" ELSE "false"

\* _fmt_usd: whether quantize(Decimal("0.01")) signals InvalidOperation.
FmtUsdRaises(d) == d.t \in {"inf", "huge"}

\* --------------------------------------------------------- should_alert
\* What a call returned: the pair (do, kind), or the exception it raised.
Returns(do, kind) == [raises |-> "", do |-> do, kind |-> kind]

Raises(e) == [raises |-> e, do |-> FALSE, kind |-> ""]

\* (liq.get("method") or "").lower(): only a string has lower().
MethodOf(liq) ==
  IF ~Truthy(liq.method) THEN Returns(FALSE, "")
  ELSE IF liq.method.t # "str" THEN Raises("AttributeError")
  ELSE Returns(FALSE, lower(liq.method.s))

\* The market branch of should_alert, the log line with _fmt_usd included.
MarketAlert(liq, usd) ==
  LET px == _to_decimal(liq.px)
      sz == _to_decimal(liq.sz)
      notional == Mul(px, sz)
  IN IF px = NoDecimal \/ sz = NoDecimal THEN Returns(FALSE, "None")
     ELSE IF notional = InvalidOperation THEN Raises("InvalidOperation")
     ELSE IF Gt(notional, usd) = "raise" THEN Raises("InvalidOperation")
     ELSE IF FmtUsdRaises(notional) THEN Raises("InvalidOperation")
     ELSE Returns(Gt(notional, usd) = "true", "market")

should_alert(liq, usd) ==
  LET method == MethodOf(liq)
  IN IF method.raises # "" THEN method
     ELSE IF method.kind = "backstop" THEN Returns(TRUE, "backstop")
     ELSE IF method.kind = "market" THEN MarketAlert(liq, usd)
     ELSE Returns(FALSE, "None")

\* ------------------------------------- should_alert applied to an event
Methods == {None, Str(""), Str("backstop"), Str("BACKSTOP"), Str("market"),
            Str("Market"), Str("other"), Num(5)}

Amounts == {None, Str("abc"), Str("1e26"), Str("Infinity"), Str("NaN"),
            Num(0), Num(1), Num(2), Num(3), Str("2")}

Thresholds == {2, 6}

NotApplied == [raises |-> "", do |-> FALSE, kind |-> "not applied"]

InitShould ==
  /\ pipeline = "big_liquidation"
  /\ READ_EXISTING_AT_START = TRUE
  /\ READ_NEW_FILES_FROM_START = TRUE
  /\ files = EmptyDict /\ offsets = EmptyDict /\ buffers = EmptyDict
  /\ consumed = EmptyDict /\ yielded = EmptyDict
  /\ last = Idle /\ writes = 0
  /\ \E usd \in Thresholds : SettingsOf(usd, 2, NoMarkets)
  /\ GateIdle
  /\ DepthIdle
  /\ ProcessIdle
  /\ StreamIdle
  /\ input \in [method : Methods, px : Amounts, sz : Amounts]
  /\ result = NotApplied

ApplyShouldAlert ==
  /\ result = NotApplied
  /\ result' = should_alert(input, USD_THRESHOLD)
  /\ UNCHANGED <<config, settings, tail, gate, input, depth, process, stream>>

SpecShould == InitShould /\ [][ApplyShouldAlert]_vars

\* C15: should_alert returns (True, "backstop") whenever the method equals
\* "backstop" in any letter case, whatever px, sz and the threshold are, and
\* returns (False, None) for every method that is neither backstop nor
\* market, a missing or empty method included.
IsBackstop(m) == m \in {Str("backstop"), Str("BACKSTOP")}

IsMarket(m) == m \in {Str("market"), Str("Market")}

C15_BackstopAndUnknown ==
  result # NotApplied =>
    /\ IsBackstop(input.method) => result = Returns(TRUE, "backstop")
    /\ (~IsBackstop(input.method) /\ ~IsMarket(input.method))
         => result = Returns(FALSE, "None")

\* C16: for a method "market" should_alert decides to alert if and only if
\* px and sz both parse as decimal numbers and px * sz is strictly greater
\* than USD_THRESHOLD.
ParsesAsNumber(x) == _to_decimal(x).t \in {"fin", "huge"}

Exceeds(px, sz, usd) ==
  LET a == _to_decimal(px)
      b == _to_decimal(sz)
  IN IF a.t = "fin" /\ b.t = "fin" THEN a.n * b.n > usd
     ELSE a # Fin(0) /\ b # Fin(0)

C16_MarketThreshold ==
  (result # NotApplied /\ input.method = Str("market")) =>
    ((result.raises = "" /\ result.do)
       <=> (/\ ParsesAsNumber(input.px)
            /\ ParsesAsNumber(input.sz)
            /\ Exceeds(input.px, input.sz, USD_THRESHOLD)))

\* --------------------------------- extract_liquidations_from_record
\* Parsed JSON containers: an object is a function from its keys to values,
\* an array a sequence of values.
Obj(d) == [t |-> "obj", d |-> d]

Arr(items) == [t |-> "arr", items |-> items]

\* dict.get(k): None for a missing key.
get(o, k) == IF k \in DOMAIN o.d THEN o.d[k] ELSE None

\* Python truthiness of any parsed value.
truth(x) ==
  CASE x.t = "obj" -> DOMAIN x.d # {}
    [] x.t = "arr" -> x.items # <<>>
    [] OTHER -> Truthy(x)

\* The event built from the block-level object rec, the object e1 that holds
\* the trade fields and the object liq that holds the liquidation fields
\* (time and side are copied like hash, local_time and block_time like
\* block_number).
EventOf(rec, e1, liq) ==
  [block_number |-> get(rec, "block_number"),
   hash |-> get(e1, "hash"),
   coin |-> get(e1, "coin"),
   px |-> get(e1, "px"),
   sz |-> get(e1, "sz"),
   method |-> get(liq, "method"),
   liquidatedUser |-> get(liq, "liquidatedUser")]

\* ev[1] if isinstance(ev, (list, tuple)) and len(ev) > 1 else None
SecondOf_first(ev) ==
  IF ev.t = "arr" /\ Len(ev.items) > 1 THEN ev.items[1] ELSE None

SecondOf(ev) ==
  IF ev.t = "arr" /\ Len(ev.items) > 1 THEN ev.items[2] ELSE None

\* The events yielded for the elements evs of rec["events"].
RECURSIVE EmbeddedEvents(_, _)
EmbeddedEvents(rec, evs) ==
  IF evs = <<>> THEN <<>>
  ELSE LET e1 == SecondOf(Head(evs))
           rest == EmbeddedEvents(rec, Tail(evs))
       IN IF e1.t # "obj" THEN rest
          ELSE IF get(e1, "liquidation").t # "obj" THEN rest
          ELSE <<EventOf(rec, e1, get(e1, "liquidation"))>> \o rest

\* What the generator yields, and the exception that ends it: iterating a
\* number raises TypeError, iterating a string or an object yields elements
\* that are not lists.
extract_liquidations_from_record(rec) ==
  IF "liquidatedUser" \in DOMAIN rec.d /\ "method" \in DOMAIN rec.d
  THEN [raises |-> "", events |-> <<EventOf(rec, rec, rec)>>]
  ELSE LET evs == get(rec, "events")
       IN IF ~truth(evs) THEN [raises |-> "", events |-> <<>>]
          ELSE IF evs.t = "arr"
          THEN [raises |-> "", events |-> EmbeddedEvents(rec, evs.items)]
          ELSE IF evs.t = "num" THEN [raises |-> "TypeError", events |-> <<>>]
          ELSE [raises |-> "", events |-> <<>>]

\* ------------------------------ the extraction applied to one record
MaxEvents == 2

\* The embedded objects that occur: a backstop liquidation, a market
\* liquidation, a trade without liquidation, a liquidation that is a string.
Liquidation(method, user) ==
  Obj([k \in {"method", "liquidatedUser"} |->
         IF k = "method" THEN Str(method) ELSE Str(user)])

Trade(hash, liq) ==
  Obj([k \in {"hash", "coin", "px", "sz", "liquidation"} |->
         CASE k = "hash" -> Str(hash)
           [] k = "coin" -> Str("BTC")
           [] k = "px" -> Num(3)
           [] k = "sz" -> Num(1)
           [] OTHER -> liq])

PlainTrade == Obj([k \in {"hash"} |-> Str("h3")])

Elements ==
  {Str("x"),
   Arr(<<Trade("h1", Liquidation("backstop", "u1"))>>),
   Arr(<<Str("u1"), Str("x")>>),
   Arr(<<Str("u1"), PlainTrade>>),
   Arr(<<Str("u1"), Trade("h3", Str("x"))>>),
   Arr(<<Str("u1"), Trade("h1", Liquidation("backstop", "u1"))>>),
   Arr(<<Str("u2"), Trade("h2", Liquidation("market", "u2")), Str("x")>>)}

EventLists == UNION {[1..n -> Elements] : n \in 0..MaxEvents}

\* The values of the key events: a list, or something that is not a list.
EventValues == {Arr(evs) : evs \in EventLists} \cup {None, Num(5), Str("x")}

\* The block-level objects that occur: any subset of the keys, each key with
\* one value, events with each of the lists.
RecordKeys == {"liquidatedUser", "method", "hash", "block_number", "events"}

RecordOver(keys, evs) ==
  Obj([k \in keys |->
         CASE k = "liquidatedUser" -> Str("u0")
           [] k = "method" -> Str("backstop")
           [] k = "hash" -> Str("h0")
           [] k = "block_number" -> Num(7)
           [] OTHER -> evs])

NotExtracted == [raises |-> "not applied", events |-> <<>>]

InitExtract ==
  /\ pipeline = "big_liquidation"
  /\ READ_EXISTING_AT_START = TRUE
  /\ READ_NEW_FILES_FROM_START = TRUE
  /\ files = EmptyDict /\ offsets = EmptyDict /\ buffers = EmptyDict
  /\ consumed = EmptyDict /\ yielded = EmptyDict
  /\ last = Idle /\ writes = 0
  /\ SettingsOf(2, 2, NoMarkets)
  /\ GateIdle
  /\ DepthIdle
  /\ ProcessIdle
  /\ StreamIdle
  /\ \E keys \in SUBSET RecordKeys, evs \in EventValues :
       input = RecordOver(keys, evs)
  /\ result = NotExtracted

ApplyExtract ==
  /\ result = NotExtracted
  /\ result' = extract_liquidations_from_record(input)
  /\ UNCHANGED <<config, settings, tail, gate, input, depth, process, stream>>

SpecExtract == InitExtract /\ [][ApplyExtract]_vars

\* C19: a record with both keys liquidatedUser and method yields exactly one
\* event built from its own fields, whatever its events list holds; any
\* other record yields, in list order, exactly one event for each element of
\* events that is a list of two or more items whose second item is an object
\* with an object-valued liquidation field, with block_number taken from the
\* record and the other fields from the embedded object, and nothing for
\* every other element.
Qualifies(ev) ==
  /\ ev.t = "arr"
  /\ Len(ev.items) >= 2
  /\ ev.items[2].t = "obj"
  /\ "liquidation" \in DOMAIN ev.items[2].d
  /\ ev.items[2].d["liquidation"].t = "obj"

Expected(rec, ev) ==
  [block_number |-> get(rec, "block_number"),
   hash |-> get(ev.items[2], "hash"),
   coin |-> get(ev.items[2], "coin"),
   px |-> get(ev.items[2], "px"),
   sz |-> get(ev.items[2], "sz"),
   method |-> get(ev.items[2].d["liquidation"], "method"),
   liquidatedUser |-> get(ev.items[2].d["liquidation"], "liquidatedUser")]

OwnEvent(rec) ==
  [block_number |-> get(rec, "block_number"),
   hash |-> get(rec, "hash"),
   coin |-> get(rec, "coin"),
   px |-> get(rec, "px"),
   sz |-> get(rec, "sz"),
   method |-> get(rec, "method"),
   liquidatedUser |-> get(rec, "liquidatedUser")]

ListedEvents(rec) ==
  IF "events" \in DOMAIN rec.d /\ rec.d["events"].t = "arr"
  THEN rec.d["events"].items
  ELSE <<>>

C19_Extraction ==
  result # NotExtracted =>
    /\ IF {"liquidatedUser", "method"} \subseteq DOMAIN input.d
       THEN result.events = <<OwnEvent(input)>>
       ELSE LET evs == ListedEvents(input)
                out == result.events
                Q == {i \in 1..Len(evs) : Qualifies(evs[i])}
            IN \E f \in [1..Len(out) -> 1..Len(evs)] :
                 /\ {f[k] : k \in 1..Len(out)} = Q
                 /\ \A j, k \in 1..Len(out) : j < k => f[j] < f[k]
                 /\ \A k \in 1..Len(out) : out[k] = Expected(input, evs[f[k]])

\* A record without the two keys yielded for one element of its list and
\* skipped another one.
C19_Witness ==
  /\ result # NotExtracted
  /\ "method" \notin DOMAIN input.d
  /\ Len(ListedEvents(input)) = 2
  /\ Len(result.events) = 1

\* -------------------------------------------------------- _maybe_alert
\* config.symbols['allowed_liquidation_coins'] of the configuration modelled.
ALLOWED_COINS == {"BTC"}

\* coin not in ALLOWED_COINS
Allowed_any(coin) == TRUE

Allowed(coin) == coin.t = "str" /\ coin.s \in ALLOWED_COINS

\* compose_message: the text, as the fields it shows, or the exception of
\* _fmt_usd when a notional can be computed but not formatted.
compose_message(liq, kind) ==
  LET px_d == _to_decimal(liq.px)
      sz_d == _to_decimal(liq.sz)
      notional == Mul(px_d, sz_d)
      text == [kind |-> kind, method |-> liq.method, coin |-> liq.coin,
               hash |-> liq.hash, block |-> liq.block_number]
  IN IF px_d = NoDecimal \/ sz_d = NoDecimal
     THEN [raises |-> "", text |-> text]
     ELSE IF notional = InvalidOperation \/ FmtUsdRaises(notional)
     THEN [raises |-> "InvalidOperation", text |-> text]
     ELSE [raises |-> "", text |-> text]

\* deque(maxlen=20000)
seen_order_maxlen == 20000

\* The loop that keeps seen_keys no larger than seen_order: popleft() on an
\* empty deque raises IndexError.
RECURSIVE SyncSeen(_)
SyncSeen(st) ==
  IF Cardinality(st.seen_keys) <= seen_order_maxlen THEN st
  ELSE IF st.seen_order = <<>> THEN [st EXCEPT !.raises = "IndexError"]
  ELSE SyncSeen([st EXCEPT !.seen_order = Tail(@),
                           !.seen_keys = @ \ {Head(st.seen_order)}])

\* send_telegram_alert(msg) returning ok: the call is recorded; missing
\* credentials, a failed request and a status outside 2xx all return False.
send_telegram_alert(calls, msg, ok) == Append(calls, [msg |-> msg, ok |-> ok])

\* _maybe_alert(liq, path) in the state st, the send returning ok.
MaybeAlert(liq, usd, ok, st) ==
  LET decision == should_alert(liq, usd)
      msg == compose_message(liq, decision.kind)
  IN IF decision.raises # "" THEN [st EXCEPT !.raises = decision.raises]
     ELSE IF ~decision.do THEN st
     ELSE IF ~Allowed(liq.coin) THEN st
     ELSE IF msg.raises # "" THEN [st EXCEPT !.raises = msg.raises]
     ELSE SyncSeen([st EXCEPT
                      !.sent = send_telegram_alert(@, msg.text, ok)])

\* The loop of _process_path over the events of one record: an exception
\* ends the loop (line 298); done counts the events whose _maybe_alert
\* returned.
RECURSIVE AlertEach(_, _, _, _)
AlertEach(liqs, usd, oks, st) ==
  IF liqs = <<>> \/ st.raises # "" THEN st
  ELSE AlertEach(Tail(liqs), usd, Tail(oks),
                 LET after == MaybeAlert(Head(liqs), usd, Head(oks), st)
                 IN IF after.raises # "" THEN after
                    ELSE [after EXCEPT !.done = @ + 1])

\* Lines 285-300 of _process_path for the parsed object rec.
HandleRecord(rec, usd, oks, calls, keys, order) ==
  LET found == extract_liquidations_from_record(rec)
      st0 == [sent |-> calls, seen_keys |-> keys, seen_order |-> order,
              raises |-> found.raises, done |-> 0]
  IN [events |-> found.events,
      after |-> AlertEach(found.events, usd, oks, st0)]

\* ==================================================== stale_oracle_alerts
\* ---------------------------------------------------------- timestamps
\* The timestamp strings that occur: an ISO time with an offset that denotes
\* second n, the same without offset, and strings that are no ISO time with
\* and without the letter T.
Iso(n) == [t |-> "str", n |-> n, s |-> "iso"]

IsoNaive(n) == [t |-> "str", n |-> n, s |-> "iso naive"]

NotIso == Str("Tx")

\* "T" in ts
HasT(ts) == ts.s \in {"iso", "iso naive", "Tx"}

\* parse_iso_ts: the datetime, or the ValueError of fromisoformat.
parse_iso_ts(ts) ==
  IF ts.s \in {"iso", "iso naive"}
  THEN [raises |-> "", sec |-> ts.n, aware |-> ts.s = "iso"]
  ELSE [raises |-> "ValueError", sec |-> 0, aware |-> FALSE]

\* abs((a - b).total_seconds()); subtracting an aware and a naive datetime
\* raises TypeError.
abs_signed(a, b) == [raises |-> "", dsec |-> a.sec - b.sec]

abs_seconds(a, b) ==
  IF a.aware # b.aware THEN [raises |-> "TypeError", dsec |-> 0]
  ELSE [raises |-> "", dsec |-> IF a.sec >= b.sec THEN a.sec - b.sec
                                ELSE b.sec - a.sec]

\* ------------------------------------------ collect_last_update_times
\* sym not in MARKETS, when MARKETS is not None
InMarkets_any(sym) == TRUE

InMarkets(sym) == MARKETS.none \/ sym \in MARKETS.syms

\* The (sym, ts) pairs of one map, in order.
RECURSIVE CollectMap(_)
CollectMap(pairs) ==
  IF pairs = <<>> THEN <<>>
  ELSE LET sym == Head(pairs).items[1]
           obj == Head(pairs).items[2]
           first == get(obj, "last_update_time")
           ts == IF truth(first) THEN first ELSE get(obj, "last_updated_time")
           rest == CollectMap(Tail(pairs))
       IN IF ~InMarkets(sym) THEN rest
          ELSE IF ts.t = "str" /\ HasT(ts) THEN <<<<sym, ts>>>> \o rest
          ELSE rest

\* oracle.get(key, [])
MapOf(oracle, key) ==
  IF key \in DOMAIN oracle.d THEN oracle.d[key].items ELSE <<>>

collect_last_update_times(record) ==
  LET events == get(record, "events")
  IN IF ~truth(events) THEN <<>>
     ELSE LET first == events.items[1]
              oracle == IF "oracle_pxs" \in DOMAIN first.d
                        THEN first.d["oracle_pxs"] ELSE Obj(<<>>)
          IN CollectMap(MapOf(oracle, "coin_to_mark_px"))
               \o CollectMap(MapOf(oracle, "coin_to_oracle_px"))
               \o CollectMap(MapOf(oracle, "coin_to_external_perp_px"))

\* --------------------------------------------------------- check_record
\* The offenders among ups: a pair whose time cannot be parsed or compared
\* is passed over (bare except).
RECURSIVE Offenders(_, _, _)
Offenders(ups, block_dt, secs) ==
  IF ups = <<>> THEN <<>>
  ELSE LET lut == parse_iso_ts(Head(ups)[2])
           d == abs_seconds(block_dt, lut)
           rest == Offenders(Tail(ups), block_dt, secs)
       IN IF lut.raises # "" \/ d.raises # "" THEN rest
          ELSE IF d.dsec > secs
          THEN <<[sym |-> Head(ups)[1], dsec |-> d.dsec,
                  lut |-> Head(ups)[2]]>> \o rest
          ELSE rest

\* list.sort(key=dsec, reverse=True): stable, largest first.
RECURSIVE InsertDescending(_, _)
InsertDescending(sorted, x) ==
  IF sorted = <<>> THEN <<x>>
  ELSE IF Head(sorted).dsec >= x.dsec
  THEN <<Head(sorted)>> \o InsertDescending(Tail(sorted), x)
  ELSE <<x>> \o sorted

RECURSIVE SortDescending(_)
SortDescending(xs) ==
  IF xs = <<>> THEN <<>>
  ELSE InsertDescending(SortDescending(SubSeq(xs, 1, Len(xs) - 1)),
                        xs[Len(xs)])

\* offenders[:20]
Listed == 20

\* The message, as what its lines show.
StaleMessage(block_number, block_time, secs, offenders) ==
  [block |-> block_number,
   block_time |-> block_time,
   threshold |-> secs,
   worst |-> offenders[1].dsec,
   total |-> Len(offenders),
   listed |-> SubSeq(offenders, 1,
                     IF Len(offenders) < Listed THEN Len(offenders)
                     ELSE Listed),
   more |-> IF Len(offenders) > Listed THEN Len(offenders) - Listed ELSE 0]

\* block_number in alerted_blocks
Remembered_never(block_number, blocks) == FALSE

Remembered(block_number, blocks) == block_number \in blocks

\* Mutant: the block number is remembered whatever the send returned.
Remember_always(ok, block_number, blocks) == blocks \cup {block_number}

\* Lines 113-114: the block number is added only when the send succeeded.
Remember(ok, block_number, blocks) ==
  IF ok THEN blocks \cup {block_number} ELSE blocks

\* check_record(record, path, alerted_blocks), the send returning ok.
check_record(record, secs, ok, st) ==
  LET block_time == get(record, "block_time")
      block_number == IF "block_number" \in DOMAIN record.d
                      THEN record.d["block_number"] ELSE Str("unknown")
      ups == collect_last_update_times(record)
      block_dt == parse_iso_ts(block_time)
      offenders == SortDescending(Offenders(ups, block_dt, secs))
      msg == StaleMessage(block_number, block_time, secs, offenders)
  IN IF ~truth(block_time) THEN st
     ELSE IF Remembered(block_number, st.alerted_blocks) THEN st
     ELSE IF ups = <<>> THEN st
     ELSE IF block_dt.raises # "" THEN [st EXCEPT !.raises = block_dt.raises]
     ELSE IF offenders = <<>> THEN st
     ELSE [st EXCEPT
             !.sent = send_telegram_alert(@, msg, ok),
             !.alerted_blocks = Remember(ok, block_number, @)]

\* ================================== records handled one after another
MaxSent == 2

MaxBatch == 2

\* A fill of coin at px with a liquidation of the given method.
Fill(hash, coin, px, method) ==
  Arr(<<Str("u1"),
        Obj([k \in {"hash", "coin", "px", "sz", "liquidation"} |->
               CASE k = "hash" -> Str(hash)
                 [] k = "coin" -> Str(coin)
                 [] k = "px" -> px
                 [] k = "sz" -> Num(1)
                 [] OTHER ->
                      Obj([j \in {"method", "liquidatedUser"} |->
                             IF j = "method" THEN method ELSE Str("u1")])])>>)

\* The fills that occur in the liquidation records: backstop and market, of
\* an allowed and of another coin, above and below the threshold 2, one with
\* a notional that cannot be formatted and one with a number as its method.
Fills ==
  {Fill("h1", "BTC", Num(1), Str("backstop")),
   Fill("h1", "BTC", Num(3), Str("market")),
   Fill("h2", "BTC", Num(1), Str("market")),
   Fill("h2", "DOGE", Num(3), Str("backstop")),
   Fill("h2", "BTC", Str("1e26"), Str("backstop")),
   Fill("h2", "BTC", Num(1), Num(5))}

LiquidationRecords ==
  {RecordOver({"block_number", "events"}, Arr(evs)) :
     evs \in UNION {[1..n -> Fills] : n \in 1..MaxBatch}}

\* An entry (sym, {last_update_time: ts}) of an oracle map.
Px(sym, ts) ==
  Arr(<<Str(sym), Obj([k \in {"last_update_time"} |-> ts])>>)

\* A block record of the oracle feed.
OracleRecord(keys, block_number, block_time, mark, oracle) ==
  Obj([k \in keys |->
         CASE k = "block_number" -> block_number
           [] k = "block_time" -> block_time
           [] OTHER ->
                Arr(<<Obj([o \in {"oracle_pxs"} |->
                             Obj([m \in {"coin_to_mark_px",
                                         "coin_to_oracle_px"} |->
                                    IF m = "coin_to_mark_px" THEN Arr(mark)
                                    ELSE Arr(oracle)])])>>)])

\* Block time is second 10: an update at 10 or 9 is fresh for the threshold
\* 2, one at 5 or 1 is stale.
AllKeys == {"block_number", "block_time", "events"}

OracleRecords ==
  {OracleRecord(AllKeys, Num(b), Iso(10), mark, oracle) :
     b \in {1, 2},
     mark \in {<<>>, <<Px("BTC", Iso(9))>>, <<Px("BTC", Iso(5))>>,
               <<Px("ETH", Iso(5)), Px("BTC", Iso(1))>>},
     oracle \in {<<>>, <<Px("BTC", Iso(15))>>}}
  \cup {OracleRecord(AllKeys \ {"block_number"}, None, Iso(10),
                     <<Px("ETH", Iso(1))>>, <<>>),
        OracleRecord(AllKeys, Num(1), None, <<Px("BTC", Iso(5))>>, <<>>),
        OracleRecord(AllKeys, Num(2), NotIso, <<Px("BTC", Iso(5))>>, <<>>)}

\* No record is being handled.
NoRecord == [t |-> "idle"]

NoOutcome == [events |-> <<>>, raises |-> "", done |-> 0]

InitGate ==
  /\ pipeline \in Pipelines
  /\ READ_EXISTING_AT_START = TRUE
  /\ READ_NEW_FILES_FROM_START = TRUE
  /\ files = EmptyDict /\ offsets = EmptyDict /\ buffers = EmptyDict
  /\ consumed = EmptyDict /\ yielded = EmptyDict
  /\ last = Idle /\ writes = 0
  /\ \E markets \in {NoMarkets, OnlyMarkets({Str("BTC")})} :
       SettingsOf(2, 2, markets)
  /\ GateIdle
  /\ DepthIdle
  /\ ProcessIdle
  /\ StreamIdle
  /\ input = NoRecord
  /\ result = NoOutcome

\* big_liquidation _process_path, lines 285-300, for one parsed record; oks
\* are the results of the sends it makes.
ProcessLiquidations(rec, oks) ==
  /\ pipeline = "big_liquidation"
  /\ input = NoRecord
  /\ Len(sent) < MaxSent
  /\ LET h == HandleRecord(rec, USD_THRESHOLD, oks, sent, seen_keys,
                           seen_order)
     IN /\ sent' = h.after.sent
        /\ seen_keys' = h.after.seen_keys
        /\ seen_order' = h.after.seen_order
        /\ input' = rec
        /\ result' = [events |-> h.events, raises |-> h.after.raises,
                      done |-> h.after.done]
  /\ UNCHANGED <<config, settings, tail, alerted_blocks, alerted_order,
                 depth, process, stream>>

\* stale_oracle_alerts _process_path, lines 218-224, for one parsed record.
Checked(rec, ok) ==
  /\ pipeline = "stale_oracle_alerts"
  /\ LET st == check_record(rec, THRESHOLD_SECONDS, ok,
                            [sent |-> sent, alerted_blocks |-> alerted_blocks,
                             raises |-> ""])
     IN /\ sent' = st.sent
        /\ alerted_blocks' = st.alerted_blocks
        /\ input' = rec
        /\ result' = [events |-> <<>>, raises |-> st.raises, done |-> 0]
  /\ UNCHANGED <<config, settings, tail, seen_keys, seen_order,
                 alerted_order, depth, process, stream>>

CheckRecord(rec, ok) ==
  /\ input = NoRecord
  /\ Len(sent) < MaxSent
  /\ Checked(rec, ok)

\* The loop over the lines goes on to the next line.
NextLine ==
  /\ input # NoRecord
  /\ input' = NoRecord
  /\ result' = NoOutcome
  /\ UNCHANGED <<config, settings, tail, gate, depth, process, stream>>

NextGate ==
  \/ \E rec \in LiquidationRecords, oks \in [1..MaxBatch -> BOOLEAN] :
       ProcessLiquidations(rec, oks)
  \/ \E rec \in OracleRecords, ok \in BOOLEAN : CheckRecord(rec, ok)
  \/ NextLine

SpecGate == InitGate /\ [][NextGate]_vars

\* C11: in big_liquidation a liquidation with a given (hash, method) key
\* causes at most one call of send_telegram_alert while the key is resident
\* in the gate: no two calls carry the same key.
KeyOf(call) == <<call.msg.hash, call.msg.method>>

C11_KeySentOnce ==
  pipeline = "big_liquidation" =>
    \A i, j \in 1..Len(sent) : i # j => KeyOf(sent[i]) # KeyOf(sent[j])

\* C12: once a send has succeeded for block number b, no later check_record
\* of a record with block number b sends, and b stays in alerted_blocks.
C12_BlockSentOnce ==
  pipeline = "stale_oracle_alerts" =>
    /\ \A i \in 1..Len(sent) :
         sent[i].ok => sent[i].msg.block \in alerted_blocks
    /\ \A i, j \in 1..Len(sent) :
         (i < j /\ sent[i].ok) => sent[j].msg.block # sent[i].msg.block

\* Whether a record would be alerted on by a handler that remembers nothing.
WouldAlert(rec) ==
  check_record(rec, THRESHOLD_SECONDS, TRUE,
               [sent |-> <<>>, alerted_blocks |-> {}, raises |-> ""]).sent
    # <<>>

\* A record with stale markets was checked after a successful alert for its
\* block that another record had caused, and nothing was sent for it.
C12_Witness ==
  /\ pipeline = "stale_oracle_alerts"
  /\ input # NoRecord
  /\ WouldAlert(input)
  /\ Len(sent) = 1
  /\ sent[1].ok
  /\ sent[1].msg.block = get(input, "block_number")
  /\ sent[1].msg.total = 2
  /\ Len(collect_last_update_times(input)) = 1

\* The block number check_record uses for a record.
BlockOf(rec) ==
  IF "block_number" \in DOMAIN rec.d THEN rec.d["block_number"]
  ELSE Str("unknown")

\* C29: a block number enters alerted_blocks only through a successful
\* dispatch.  Every block number in alerted_blocks has had a call of
\* send_telegram_alert that returned success; a check_record whose send
\* failed (also for missing credentials) leaves alerted_blocks as it was;
\* and a record that has stale markets and whose block number is not
\* remembered causes a send attempt, also after a failed one.
C29_OnlySuccessRemembered ==
  /\ [](pipeline = "stale_oracle_alerts" =>
         \A b \in alerted_blocks :
           \E i \in 1..Len(sent) : sent[i].ok /\ sent[i].msg.block = b)
  /\ [][\A rec \in OracleRecords, ok \in BOOLEAN :
         CheckRecord(rec, ok) =>
           /\ (Len(sent') > Len(sent) /\ ~sent'[Len(sent')].ok)
                => alerted_blocks' = alerted_blocks
           /\ (WouldAlert(rec)
                 /\ BlockOf(rec) \notin alerted_blocks)
                => /\ Len(sent') = Len(sent) + 1
                   /\ sent'[Len(sent')].msg.block = BlockOf(rec)]_vars

\* A send for a block failed, the block was not remembered, and a later
\* record with the same block number was alerted on again, with success.
C29_Witness ==
  /\ pipeline = "stale_oracle_alerts"
  /\ Len(sent) = 2
  /\ ~sent[1].ok
  /\ sent[2].ok
  /\ sent[2].msg.block = sent[1].msg.block
  /\ alerted_blocks = {sent[2].msg.block}

\* C17: big_liquidation never calls send_telegram_alert for an event whose
\* coin is not in ALLOWED_COINS; when MARKETS is configured, no symbol
\* outside MARKETS is among the offenders of a stale-oracle alert.
C17_AllowListed ==
  /\ pipeline = "big_liquidation" =>
       \A i \in 1..Len(sent) :
         /\ sent[i].msg.coin.t = "str"
         /\ sent[i].msg.coin.s \in ALLOWED_COINS
  /\ (pipeline = "stale_oracle_alerts" /\ ~MARKETS.none) =>
       \A i \in 1..Len(sent) :
         \A k \in 1..Len(sent[i].msg.listed) :
           sent[i].msg.listed[k].sym \in MARKETS.syms

\* With MARKETS configured, a record in which a symbol outside MARKETS and
\* one inside it are both stale was alerted on with one offender.
C17_Witness ==
  /\ pipeline = "stale_oracle_alerts"
  /\ ~MARKETS.none
  /\ input # NoRecord
  /\ LET mark == MapOf(get(input, "events").items[1].d["oracle_pxs"],
                       "coin_to_mark_px")
     IN /\ Len(mark) = 2
        /\ mark[1].items[1] \notin MARKETS.syms
        /\ mark[2].items[1] \in MARKETS.syms
  /\ Len(sent) = 1
  /\ sent[1].msg.total = 1

\* C20: in big_liquidation every extracted event that passes should_alert and
\* the allow-list gets exactly one call of send_telegram_alert, whatever the
\* call returns; no exception is raised and the events after it are handled.
\* Stated for the records in which should_alert raises for no event.
Passes(liq) ==
  LET decision == should_alert(liq, USD_THRESHOLD)
  IN decision.raises = "" /\ decision.do /\ Allowed(liq.coin)

C20_OneSendEach ==
  [][(/\ pipeline = "big_liquidation"
      /\ input = NoRecord
      /\ input' # NoRecord
      /\ \A i \in 1..Len(result'.events) :
           should_alert(result'.events[i], USD_THRESHOLD).raises = "")
       => /\ Len(sent') - Len(sent)
               = Cardinality({i \in 1..Len(result'.events) :
                                Passes(result'.events[i])})
          /\ \A i \in 1..Len(sent) : sent'[i] = sent[i]
          /\ result'.raises = ""
          /\ result'.done = Len(result'.events)]_vars

\* C33: the events of one record are handled independently.  In
\* big_liquidation every extracted event that passes should_alert and the
\* allow-list, and whose message can be composed, gets its call of
\* send_telegram_alert whatever happens to the other events of the record,
\* an exception raised for an earlier event included.
C33_EventsIndependent ==
  [][(/\ pipeline = "big_liquidation"
      /\ input = NoRecord
      /\ input' # NoRecord)
       => \A i \in 1..Len(result'.events) :
            LET liq == result'.events[i]
                kind == should_alert(liq, USD_THRESHOLD).kind
            IN (Passes(liq) /\ compose_message(liq, kind).raises = "")
                 => \E j \in (Len(sent) + 1)..Len(sent') :
                      sent'[j].msg = compose_message(liq, kind).text]_vars

\* C36: in a dispatched stale-oracle alert every symbol is listed at most
\* once and the total of stale markets is the number of distinct stale
\* symbols, also when a symbol is in more than one of the three maps of the
\* record's first event.  Stated for the alerts that list every offender.
C36_DistinctSymbols ==
  pipeline = "stale_oracle_alerts" =>
    \A i \in 1..Len(sent) :
      LET msg == sent[i].msg
          syms == {msg.listed[k].sym : k \in 1..Len(msg.listed)}
      IN msg.more = 0
           => /\ \A j, k \in 1..Len(msg.listed) :
                   j # k => msg.listed[j].sym # msg.listed[k].sym
              /\ msg.total = Cardinality(syms)

\* ============================ one alert after another, each for a new block
\* deque(maxlen=1000)
alerted_order_maxlen == 1000

InitCapacity ==
  /\ pipeline = "stale_oracle_alerts"
  /\ READ_EXISTING_AT_START = TRUE
  /\ READ_NEW_FILES_FROM_START = TRUE
  /\ files = EmptyDict /\ offsets = EmptyDict /\ buffers = EmptyDict
  /\ consumed = EmptyDict /\ yielded = EmptyDict
  /\ last = Idle /\ writes = 0
  /\ SettingsOf(2, 2, NoMarkets)
  /\ GateIdle
  /\ DepthIdle
  /\ ProcessIdle
  /\ StreamIdle
  /\ input = NoRecord
  /\ result = NoOutcome

\* The record of block k, in which one market is stale.
BlockRecord(k) ==
  OracleRecord(AllKeys, Num(k), Iso(10), <<Px("BTC", Iso(5))>>, <<>>)

\* check_record for the records of the blocks lo..hi in turn, every send
\* succeeding (the range is halved to keep the evaluation shallow).
RECURSIVE CheckBlocks(_, _, _)
CheckBlocks(lo, hi, st) ==
  IF st.raises # "" \/ lo > hi THEN st
  ELSE IF lo = hi
  THEN check_record(BlockRecord(lo), THRESHOLD_SECONDS, TRUE, st)
  ELSE CheckBlocks((lo + hi) \div 2 + 1, hi,
                   CheckBlocks(lo, (lo + hi) \div 2, st))

\* _process_path for n new lines that hold the records of the next n
\* blocks; one block more than the capacity is enough.
ProcessBlocks(n) ==
  /\ Cardinality(alerted_blocks) <= alerted_order_maxlen
  /\ LET first == Cardinality(alerted_blocks) + 1
         st == CheckBlocks(first, first + n - 1,
                           [sent |-> sent, alerted_blocks |-> alerted_blocks,
                            raises |-> ""])
     IN /\ sent' = st.sent
        /\ alerted_blocks' = st.alerted_blocks
        /\ input' = BlockRecord(first + n - 1)
        /\ result' = [events |-> <<>>, raises |-> st.raises, done |-> 0]
  /\ UNCHANGED <<config, settings, tail, seen_keys, seen_order,
                 alerted_order, depth, process, stream>>

NextCapacity == \E n \in {1, 100} : ProcessBlocks(n)

SpecCapacity == InitCapacity /\ [][NextCapacity]_vars

\* C13: the set of remembered keys never holds more than its capacity, 1000
\* block numbers in stale_oracle_alerts and 20000 keys in big_liquidation.
C13_Capacity ==
  /\ Cardinality(alerted_blocks) <= alerted_order_maxlen
  /\ Cardinality(seen_keys) <= seen_order_maxlen

\* ==================================== check_record applied to one record
MaxPairs == 22

\* The name of market i.
Market(i) == [t |-> "str", n |-> i, s |-> "market"]

\* The last update time of market i in the feeds that occur; block time is
\* second 100.  Updates up to 4 seconds before the block; updates up to 6
\* seconds after it; updates at the block time; updates ever further back,
\* two of three unreadable or without offset; updates 3 to 6 seconds back.
LastUpdate(feed, i) ==
  CASE feed = 1 -> Iso(100 - (i % 5))
    [] feed = 2 -> Iso(100 + ((3 * i) % 7))
    [] feed = 3 -> Iso(100)
    [] feed = 4 -> IF i % 3 = 0 THEN NotIso
                   ELSE IF i % 3 = 1 THEN IsoNaive(50)
                   ELSE Iso(100 - i)
    [] OTHER -> Iso(97 - (i % 4))

Feeds == 1..5

FeedRecord(feed, n, block_time) ==
  OracleRecord(AllKeys, Num(1), block_time,
               [i \in 1..n |->
                  Arr(<<Market(i),
                        Obj([k \in {"last_update_time"} |->
                               LastUpdate(feed, i)])>>)],
               <<>>)

FeedRecords ==
  {FeedRecord(feed, n, bt) :
     feed \in Feeds, n \in 0..MaxPairs, bt \in {Iso(100), NotIso, None}}

InitStale ==
  /\ pipeline = "stale_oracle_alerts"
  /\ READ_EXISTING_AT_START = TRUE
  /\ READ_NEW_FILES_FROM_START = TRUE
  /\ files = EmptyDict /\ offsets = EmptyDict /\ buffers = EmptyDict
  /\ consumed = EmptyDict /\ yielded = EmptyDict
  /\ last = Idle /\ writes = 0
  /\ \E secs \in {2, 3} : SettingsOf(2, secs, NoMarkets)
  /\ GateIdle
  /\ DepthIdle
  /\ ProcessIdle
  /\ StreamIdle
  /\ input = NoRecord
  /\ result = NoOutcome

\* The first record a handler checks.
CheckFirst(rec, ok) ==
  /\ input = NoRecord
  /\ Checked(rec, ok)

NextStale == \E rec \in FeedRecords, ok \in BOOLEAN : CheckFirst(rec, ok)

SpecStale == InitStale /\ [][NextStale]_vars

\* C18: for a block record that is not remembered, the offenders are exactly
\* the collected pairs whose absolute difference to block_time is strictly
\* greater than THRESHOLD_SECONDS; a message is sent if and only if there is
\* an offender; it lists offenders in non-increasing order of skew, at most
\* the first 20, and gives the count of the others when there are more.
Readable(ts) == ts.t = "str" /\ ts.s \in {"iso", "iso naive"}

Distance(a, b) == IF a >= b THEN a - b ELSE b - a

\* The positions in ups of the pairs whose difference can be computed and
\* exceeds the threshold.
StalePositions(ups, block_time) ==
  {i \in 1..Len(ups) :
     /\ Readable(block_time)
     /\ Readable(ups[i][2])
     /\ ups[i][2].s = block_time.s
     /\ Distance(block_time.n, ups[i][2].n) > THRESHOLD_SECONDS}

C18_StalePredicate ==
  input # NoRecord =>
    LET ups == collect_last_update_times(input)
        bt == get(input, "block_time")
        stale == StalePositions(ups, bt)
        entries == {[sym |-> ups[i][1], lut |-> ups[i][2],
                     dsec |-> Distance(bt.n, ups[i][2].n)] : i \in stale}
    IN /\ sent # <<>> <=> stale # {}
       /\ sent # <<>> =>
            LET msg == sent[1].msg
                shown == {msg.listed[k] : k \in 1..Len(msg.listed)}
            IN /\ Len(sent) = 1
               /\ msg.total = Cardinality(stale)
               /\ Len(msg.listed) = IF msg.total < 20 THEN msg.total ELSE 20
               /\ shown \subseteq entries
               /\ Cardinality(shown) = Len(msg.listed)
               /\ \A j, k \in 1..Len(msg.listed) :
                    j < k => msg.listed[j].dsec >= msg.listed[k].dsec
               /\ \A e \in entries \ shown :
                    \A k \in 1..Len(msg.listed) : e.dsec <= msg.listed[k].dsec
               /\ msg.more = IF msg.total > 20 THEN msg.total - 20 ELSE 0

\* A record with more than 20 stale markets of different skews was alerted
\* on, the message counting the ones it does not list.
C18_Witness ==
  /\ input # NoRecord
  /\ Len(sent) = 1
  /\ sent[1].msg.more > 0
  /\ sent[1].msg.listed[1].dsec > sent[1].msg.listed[20].dsec

\* ================================================================ depth.py
MaxCycles == 4

\* timedelta(hours=1), in seconds
Hour == 60 * 60

\* The seconds between two readings of datetime.now() in consecutive cycles:
\* the sleep of CHECK_INTERVAL and the queries; the wall clock may also be
\* set back.
ClockSteps == {0 - 1800, 0, 600, 1800, 3600}

\* [ts for ts in alert_5bps_timestamps if current_time - ts < 1 hour]
RECURSIVE Prune(_, _)
Prune(timestamps, current_time) ==
  IF timestamps = <<>> THEN <<>>
  ELSE IF current_time - Head(timestamps) < Hour
  THEN <<Head(timestamps)>> \o Prune(Tail(timestamps), current_time)
  ELSE Prune(Tail(timestamps), current_time)

\* len(alert_5bps_timestamps) < 2
Permitted_more(timestamps) == Len(timestamps) <= 2

Permitted(timestamps) == Len(timestamps) < 2

\* Mutant: no timestamp is recorded for a 5bps line.
Record_never(kept, line5, current_time) == kept

\* Lines 121-123: the timestamp is appended where the 5bps line is added to
\* alerts, before the message is built and sent.
Record(kept, line5, current_time) ==
  IF line5 THEN Append(kept, current_time) ELSE kept

\* The alert line of a depth band, if its latest depth is below the
\* threshold share of the hourly average.
LineIf(low, band) == IF low THEN <<band>> ELSE <<>>

\* One pass of the loop with rows in both queries: lines 95-138.  low5,
\* low10, low50 and low100 say which bands are below the threshold; ok is
\* the outcome of the send, which the loop does not look at.
Cycle(dt, low5, low10, low50, low100, ok) ==
  LET current_time == now + dt
      kept == Prune(alert_5bps_timestamps, current_time)
      line5 == low5 /\ Permitted(kept)
      alerts == LineIf(line5, "5bps") \o LineIf(low10, "10bps")
                  \o LineIf(low50, "50bps") \o LineIf(low100, "100bps")
  IN /\ cycle.n < MaxCycles
     /\ now' = current_time
     /\ alert_5bps_timestamps' =
          IF ~low5 THEN alert_5bps_timestamps
          ELSE Record(kept, line5, current_time)
     /\ cycle' = [n |-> cycle.n + 1, rows |-> TRUE, low5 |-> low5,
                  low10 |-> low10, low50 |-> low50, low100 |-> low100,
                  before |-> alert_5bps_timestamps, alerts |-> alerts,
                  dispatched |-> alerts # <<>>,
                  ok |-> alerts # <<>> /\ ok]
     /\ UNCHANGED <<config, settings, tail, gate, applied, process, stream>>

\* One pass of the loop that finds no latest row or no row of the last
\* hour: lines 71-74 and 90-93.
EmptyCycle(dt) ==
  /\ cycle.n < MaxCycles
  /\ now' = now + dt
  /\ cycle' = [NoCycle EXCEPT !.n = cycle.n + 1,
                              !.before = alert_5bps_timestamps]
  /\ UNCHANGED <<config, settings, tail, gate, applied,
                 alert_5bps_timestamps, process, stream>>

InitDepth ==
  /\ pipeline = "big_liquidation"
  /\ READ_EXISTING_AT_START = TRUE
  /\ READ_NEW_FILES_FROM_START = TRUE
  /\ files = EmptyDict /\ offsets = EmptyDict /\ buffers = EmptyDict
  /\ consumed = EmptyDict /\ yielded = EmptyDict
  /\ last = Idle /\ writes = 0
  /\ SettingsOf(2, 2, NoMarkets)
  /\ GateIdle
  /\ AppliedIdle
  /\ DepthIdle
  /\ ProcessIdle
  /\ StreamIdle

NextDepth ==
  \/ \E dt \in ClockSteps, low5, low10, low50, low100, ok \in BOOLEAN :
       Cycle(dt, low5, low10, low50, low100, ok)
  \/ \E dt \in ClockSteps : EmptyCycle(dt)

SpecDepth == InitDepth /\ [][NextDepth]_vars

\* C14: in a cycle in which the 5bps condition holds, the 5bps line is in the
\* message only if fewer than 2 such alerts were recorded less than one hour
\* before the cycle; alert_5bps_timestamps never holds more than 2 entries
\* less than one hour old; a suppressed cycle records no timestamp.
Recent(timestamps, current_time) ==
  {i \in 1..Len(timestamps) : current_time - timestamps[i] < Hour}

Has5bps(alerts) == \E k \in 1..Len(alerts) : alerts[k] = "5bps"

C14_RateLimit ==
  /\ Cardinality(Recent(alert_5bps_timestamps, now)) <= 2
  /\ (cycle.rows /\ cycle.low5) =>
       /\ Has5bps(cycle.alerts)
            => Cardinality(Recent(cycle.before, now)) < 2
       /\ ~Has5bps(cycle.alerts)
            => /\ Len(alert_5bps_timestamps)
                    = Cardinality(Recent(cycle.before, now))
               /\ \A i \in 1..Len(alert_5bps_timestamps) :
                    \E j \in Recent(cycle.before, now) :
                      alert_5bps_timestamps[i] = cycle.before[j]

\* The 5bps condition held in a cycle less than an hour after two recorded
\* alerts: the line was left out of a message that was dispatched, and the
\* two timestamps stayed.
C14_Witness ==
  /\ cycle.rows
  /\ cycle.low5
  /\ ~Has5bps(cycle.alerts)
  /\ cycle.dispatched
  /\ Len(alert_5bps_timestamps) = 2
  /\ alert_5bps_timestamps[1] < alert_5bps_timestamps[2]
  /\ now > alert_5bps_timestamps[2]

\* C37: a 5bps timestamp is recorded exactly when the 5bps line is added to
\* the message, whatever the send returns afterwards, so a failed send uses
\* one of the 2 slots of the hour; and the 10bps, 50bps and 100bps lines are
\* in the message exactly when their own condition holds, also in a cycle
\* whose 5bps line is suppressed.  Stated on the state after a cycle:
\* cycle.before is the list the cycle began with and now the time it read.
Within(timestamps, current_time) ==
  SelectSeq(timestamps, LAMBDA ts : current_time - ts < Hour)

HasLine(alerts, band) == \E k \in 1..Len(alerts) : alerts[k] = band

C37_RecordedWhenAdded ==
  cycle.rows =>
    /\ IF HasLine(cycle.alerts, "5bps")
       THEN alert_5bps_timestamps = Append(Within(cycle.before, now), now)
       ELSE alert_5bps_timestamps \in
              {cycle.before, Within(cycle.before, now)}
    /\ HasLine(cycle.alerts, "5bps") => cycle.dispatched
    /\ HasLine(cycle.alerts, "10bps") <=> cycle.low10
    /\ HasLine(cycle.alerts, "50bps") <=> cycle.low50
    /\ HasLine(cycle.alerts, "100bps") <=> cycle.low100

\* The send of a message with the 5bps line failed and its timestamp is the
\* second one recorded: the failed send used the last slot of the hour.
C37_Witness ==
  /\ cycle.rows
  /\ HasLine(cycle.alerts, "5bps")
  /\ cycle.dispatched
  /\ ~cycle.ok
  /\ Len(cycle.before) = 1
  /\ Len(alert_5bps_timestamps) = 2
  /\ alert_5bps_timestamps[2] = now

\* ============================================================ the process
\* ------------------------------------------------- main of a tail daemon
MaxQueue == 2

\* Mutant: the observer is started before the handler has scanned the root.
main_started_first == <<"isdir", "Observer", "TailHandler", "sleep">>

\* The statements of the main thread in order (big_liquidation main,
\* stale_oracle_alerts __main__): the os.path.isdir test, TailHandler(root),
\* which scans the root, Observer() with schedule and start, and the sleep
\* loop inside try.
main == <<"isdir", "TailHandler", "Observer", "sleep">>

\* The statement that follows stmt.
After(stmt) ==
  LET i == CHOOSE j \in 1..Len(main) : main[j] = stmt IN main[i + 1]

\* The steps of TailHandler.__init__: the os.walk listing, one registration
\* per listed file, and in stale_oracle_alerts the search for the focus file
\* and its registration.
ScanStep(do, path) == [do |-> do, path |-> path]

\* The files os.walk lists, in directory order.
Listing(fs) == SelectSeq(<<"A", "B", "C">>, LAMBDA p : p \in DOMAIN fs)

RECURSIVE Registrations(_)
Registrations(paths) ==
  IF paths = <<>> THEN <<>>
  ELSE <<ScanStep("register", Head(paths))>> \o Registrations(Tail(paths))

\* The process is started: nothing is registered, the observer does not run.
InitMain ==
  /\ StreamIdle
  /\ pipeline \in Pipelines
  /\ READ_EXISTING_AT_START \in BOOLEAN
  /\ READ_NEW_FILES_FROM_START = TRUE
  /\ env \in [root : BOOLEAN, token : BOOLEAN]
  /\ files = IF env.root THEN [p \in {"A", "B"} |-> <<"x", LF>>]
             ELSE EmptyDict
  /\ offsets = EmptyDict /\ buffers = EmptyDict
  /\ consumed = EmptyDict /\ yielded = EmptyDict
  /\ last = Idle /\ writes = 0
  /\ SettingsOf(2, 2, NoMarkets)
  /\ GateIdle
  /\ AppliedIdle
  /\ DepthIdle
  /\ pc = "isdir"
  /\ walk = <<ScanStep("walk", "")>>
  /\ started = FALSE
  /\ event_queue = <<>>
  /\ handled = 0
  /\ developer = <<>>
  /\ exited = NotExited

\* How the process ends.
Exit(by, at, reports, code) ==
  [by |-> by, at |-> at, reports |-> reports, code |-> code]

\* if not os.path.isdir(root): sys.exit(1)
Isdir ==
  /\ pc = "isdir"
  /\ IF env.root
     THEN pc' = After("isdir") /\ UNCHANGED exited
     ELSE pc' = "exit" /\ exited' = Exit("SystemExit", "isdir", 0, 1)
  /\ UNCHANGED <<stream, config, settings, tail, gate, applied, depth>>
  /\ UNCHANGED <<env, walk, started, event_queue, handled, developer>>

\* for dp, _, files in os.walk(self.root): the directory is listed.
Walk ==
  /\ pc = "TailHandler"
  /\ walk # <<>>
  /\ Head(walk).do = "walk"
  /\ walk' = Registrations(Listing(files)) \o
             (IF pipeline = "stale_oracle_alerts"
              THEN <<ScanStep("find", "")>> ELSE <<>>)
  /\ UNCHANGED <<stream, config, settings, tail, gate, applied, depth>>
  /\ UNCHANGED <<env, pc, started, event_queue, handled, developer, exited>>

\* The body of the walk for one listed file: a file that is gone (isfile is
\* false, or getsize raises FileNotFoundError) is passed over.
ScanFile ==
  /\ pc = "TailHandler"
  /\ walk # <<>>
  /\ Head(walk).do = "register"
  /\ LET p == Head(walk).path
         start == IF READ_EXISTING_AT_START THEN 0 ELSE getsize(files, p)
     IN /\ IF p \in DOMAIN files
           THEN /\ offsets' = Put(offsets, p, start)
                /\ buffers' = Put(buffers, p, <<>>)
                /\ consumed' = Put(consumed, p, <<>>)
                /\ yielded' = Put(yielded, p, <<>>)
           ELSE UNCHANGED <<offsets, buffers, consumed, yielded>>
        /\ last' = [Idle EXCEPT !.op = "scan", !.path = p]
  /\ walk' = Tail(walk)
  /\ UNCHANGED <<stream, config, settings, files, writes, gate, applied, depth>>
  /\ UNCHANGED <<env, pc, started, event_queue, handled, developer, exited>>

\* find_latest_hour_path and find_latest_file_in: the newest file of the
\* newest hour directory, or None when there is no such directory or file.
FindFocus ==
  /\ pc = "TailHandler"
  /\ walk # <<>>
  /\ Head(walk).do = "find"
  /\ \E focus_file \in DOMAIN files \cup {""} :
       walk' = IF focus_file = "" THEN Tail(walk)
               ELSE <<ScanStep("focus", focus_file)>> \o Tail(walk)
  /\ UNCHANGED <<stream, config, settings, tail, gate, applied, depth>>
  /\ UNCHANGED <<env, pc, started, event_queue, handled, developer, exited>>

\* Lines 171-175 of stale_oracle_alerts: os.path.getsize(self.focus_file) is
\* called outside any try, and main calls TailHandler(ROOT) outside its try:
\* FileNotFoundError ends the process with a traceback.
FocusSize ==
  /\ pc = "TailHandler"
  /\ walk # <<>>
  /\ Head(walk).do = "focus"
  /\ LET p == Head(walk).path
         start == IF READ_EXISTING_AT_START THEN 0 ELSE getsize(files, p)
     IN IF p \in DOMAIN files
        THEN /\ offsets' = Put(offsets, p, start)
             /\ buffers' = IF p \in DOMAIN buffers THEN buffers
                           ELSE Put(buffers, p, <<>>)
             /\ consumed' = Put(consumed, p, <<>>)
             /\ yielded' = Put(yielded, p, <<>>)
             /\ last' = [Idle EXCEPT !.op = "focus", !.path = p]
             /\ walk' = Tail(walk)
             /\ UNCHANGED <<pc, exited>>
        ELSE /\ last' = [Idle EXCEPT !.op = "focus", !.path = p,
                                     !.raised = TRUE]
             /\ pc' = "exit"
             /\ exited' = Exit("FileNotFoundError", "TailHandler", 0, 1)
             /\ UNCHANGED <<offsets, buffers, consumed, yielded, walk>>
  /\ UNCHANGED <<stream, config, settings, files, writes, gate, applied, depth>>
  /\ UNCHANGED <<env, started, event_queue, handled, developer>>

\* TailHandler(root) returns.
ScanDone ==
  /\ pc = "TailHandler"
  /\ walk = <<>>
  /\ pc' = After("TailHandler")
  /\ UNCHANGED <<stream, config, settings, tail, gate, applied, depth>>
  /\ UNCHANGED <<env, walk, started, event_queue, handled, developer, exited>>

\* observer = Observer(); observer.schedule(handler, ...); observer.start()
ObserverStart ==
  /\ pc = "Observer"
  /\ started' = TRUE
  /\ pc' = After("Observer")
  /\ UNCHANGED <<stream, config, settings, tail, gate, applied, depth>>
  /\ UNCHANGED <<env, walk, event_queue, handled, developer, exited>>

\* The running observer queues an event for a path under the root.
Notify(kind, p) ==
  /\ started
  /\ exited = NotExited
  /\ handled + Len(event_queue) < MaxQueue
  /\ event_queue' = Append(event_queue, [kind |-> kind, path |-> p])
  /\ UNCHANGED <<stream, config, settings, tail, gate, applied, depth>>
  /\ UNCHANGED <<env, pc, walk, started, handled, developer, exited>>

\* The observer thread takes the oldest queued event and calls the handler
\* for it; the call returns before the next event is taken.
Dispatch ==
  /\ started
  /\ exited = NotExited
  /\ event_queue # <<>>
  /\ LET ev == Head(event_queue)
         r == IF ev.kind = "created"
              THEN Created(pipeline, READ_NEW_FILES_FROM_START,
                           offsets, buffers, files, ev.path)
              ELSE Modified(pipeline, offsets, buffers, files, ev.path)
     IN /\ offsets' = r.offsets
        /\ buffers' = r.buffers
        /\ consumed' = IF ev.kind = "created"
                       THEN Put(consumed, ev.path, r.bytes)
                       ELSE Put(consumed, ev.path,
                                Get(consumed, ev.path, <<>>) \o r.bytes)
        /\ yielded' = IF ev.kind = "created"
                      THEN Put(yielded, ev.path, r.lines)
                      ELSE Put(yielded, ev.path,
                               Get(yielded, ev.path, <<>>) \o r.lines)
        /\ last' = Done(ev.kind, ev.path, r)
  /\ event_queue' = Tail(event_queue)
  /\ handled' = handled + 1
  /\ UNCHANGED <<stream, config, settings, files, writes, gate, applied, depth>>
  /\ UNCHANGED <<env, pc, walk, started, developer, exited>>

\* KeyboardInterrupt reaches the main thread.  Inside the try of the sleep
\* loop it is caught: one developer alert, observer.stop(), normal end.
\* Before the try nothing catches it.
Interrupt ==
  /\ pc # "exit"
  /\ IF pc = "sleep"
     THEN /\ developer' = Append(developer, "Stopped by user (Ctrl+C)")
          /\ exited' = Exit("KeyboardInterrupt", pc, 1, 0)
     ELSE /\ UNCHANGED developer
          /\ exited' = Exit("KeyboardInterrupt", pc, 0, 130)
  /\ pc' = "exit"
  /\ UNCHANGED <<stream, config, settings, tail, gate, applied, depth>>
  /\ UNCHANGED <<env, walk, started, event_queue, handled>>

NextMain ==
  \/ Isdir
  \/ Walk
  \/ ScanFile
  \/ FindFocus
  \/ FocusSize
  \/ ScanDone
  \/ ObserverStart
  \/ \E kind \in {"created", "modified"}, p \in {"A", "B"} : Notify(kind, p)
  \/ Dispatch
  \/ Interrupt
  \/ \E p \in {"A", "B"} : AppendBytes(p, <<"x", LF>>)
  \/ \E p \in {"A", "B"} : Remove(p)

SpecMain == InitMain /\ [][NextMain]_vars

\* The statements the main thread executes by itself up to its sleep loop.
Startup ==
  \/ Isdir
  \/ Walk
  \/ ScanFile
  \/ FindFocus
  \/ FocusSize
  \/ ScanDone
  \/ ObserverStart

\* Dispatch can be taken: the observer runs and an event is queued.
Pending == started /\ exited = NotExited /\ event_queue # <<>>

\* Both threads keep running: the main thread takes its next statement and
\* the observer thread handles a queued event (weak fairness of Dispatch,
\* with its enabling condition written out).  Events, writes and Ctrl+C come
\* from outside and need not happen.
Scheduling ==
  /\ WF_vars(Startup)
  /\ []<>(~Pending) \/ []<><<Dispatch>>_vars

\* The process on a root whose files nobody writes or removes: watcher events
\* and Ctrl+C may come or not.
NextQuiet ==
  \/ Startup
  \/ Dispatch
  \/ \E kind \in {"created", "modified"}, p \in {"A", "B"} : Notify(kind, p)
  \/ Interrupt

SpecQuiet == InitMain /\ [][NextQuiet]_vars /\ Scheduling

\* C22: the startup scan.  TailHandler.__init__ registers a listed file
\* that exists with offset 0 when READ_EXISTING_AT_START is set and with its
\* size otherwise, always with an empty buffer; a file that has disappeared
\* is passed over and startup goes on, in the walk and in the focus-file
\* step of stale_oracle_alerts; and the observer is started only when the
\* scan is complete, so no event is handled before.
C22_StartupScan ==
  /\ [][(ScanFile \/ FocusSize) /\ Head(walk).path \in DOMAIN files
          => LET p == Head(walk).path
             IN /\ p \in DOMAIN offsets'
                /\ offsets'[p] = IF READ_EXISTING_AT_START THEN 0
                                 ELSE Len(files[p])
                /\ p \in DOMAIN buffers'
                /\ buffers'[p] = <<>>]_vars
  /\ [](last.op \in {"scan", "focus"} => ~last.raised)
  /\ [](exited.by # "FileNotFoundError")
  /\ [](started => walk = <<>>)
  /\ [](~started => handled = 0)

\* C26: single actor.  The offset and buffer tables are changed only by a
\* step of the scan, made by the main thread before the observer is
\* started, or by one whole handler call for the oldest queued event, made
\* by the observer thread after the scan is complete; the observer never
\* runs while the scan is unfinished, and events are handled one at a time
\* in arrival order.
C26_SingleActor ==
  /\ [](started => pc \in {"sleep", "exit"} /\ walk = <<>>)
  /\ [](~started => event_queue = <<>> /\ handled = 0)
  /\ [][<<offsets, buffers>>' # <<offsets, buffers>>
          => \/ /\ ~started
                /\ pc = "TailHandler"
                /\ pc' = "TailHandler"
                /\ walk # <<>>
                /\ walk' = Tail(walk)
                /\ handled' = handled
             \/ /\ started
                /\ pc' = pc
                /\ walk = <<>>
                /\ event_queue # <<>>
                /\ event_queue' = Tail(event_queue)
                /\ handled' = handled + 1
                /\ last'.op = Head(event_queue).kind
                /\ last'.path = Head(event_queue).path]_vars
  /\ [][handled' # handled
          => /\ event_queue # <<>>
             /\ event_queue' = Tail(event_queue)
             /\ handled' = handled + 1]_vars

\* The scan registered both files, and two queued events were then handled
\* one after the other, the second one reading what a writer had appended.
C26_Witness ==
  /\ started
  /\ handled = 2
  /\ event_queue = <<>>
  /\ DOMAIN offsets = {"A", "B"}
  /\ last.op = "modified"
  /\ last.read
  /\ last.nread > 0
  /\ last.lines # <<>>

\* C27: configuration errors are fatal at startup.  When the root directory
\* does not exist or the market-alert Telegram token or chat id is unset,
\* the process ends with a non-zero status before the observer is started
\* and no watcher event is handled.
C27_ConfigFatal ==
  (~env.root \/ ~env.token)
    => /\ ~started
       /\ handled = 0
       /\ pc = "exit" => exited.code # 0

\* C35: with READ_EXISTING_AT_START set, the complete lines a file under the
\* root holds at startup are eventually processed, also when no event is
\* ever delivered for the file.  Stated for the runs in which the files stay
\* as they are and the process is not ended: the line of each file is
\* eventually yielded to _process_path.
C35_ExistingProcessed ==
  \A p \in {"A", "B"} :
    (READ_EXISTING_AT_START /\ env.root)
      => <>(\/ p \in DOMAIN yielded /\ yielded[p] # <<>>
            \/ exited # NotExited)

\* ------------------------------------ the polling daemons' top level
\* depth.py (monitor_liquidity_depth and __main__) and liquidation_alert.py
\* (check_liquidations and the __main__ loop).
Pollers == {"depth", "liquidation_alert"}

InitPoll ==
  /\ StreamIdle
  /\ pipeline \in Pollers
  /\ READ_EXISTING_AT_START = TRUE
  /\ READ_NEW_FILES_FROM_START = TRUE
  /\ files = EmptyDict /\ offsets = EmptyDict /\ buffers = EmptyDict
  /\ consumed = EmptyDict /\ yielded = EmptyDict
  /\ last = Idle /\ writes = 0
  /\ SettingsOf(2, 2, NoMarkets)
  /\ GateIdle
  /\ AppliedIdle
  /\ alert_5bps_timestamps = <<>> /\ now = 0 /\ cycle = NoCycle
  /\ env = FullEnv
  /\ pc = IF pipeline = "depth" THEN "connect" ELSE "check"
  /\ walk = <<>>
  /\ started = FALSE
  /\ event_queue = <<>>
  /\ handled = 0
  /\ developer = <<>>
  /\ exited = NotExited

\* What no step of the top level touches.
PollFrame ==
  /\ UNCHANGED <<stream, config, settings, tail, gate, applied>>
  /\ UNCHANGED <<alert_5bps_timestamps, now>>
  /\ UNCHANGED <<env, walk, started, event_queue, handled>>

\* send_developer_alert is called for each text of msgs in turn.
Report(msgs) == developer' = developer \o msgs

\* The process ends on `by` after the reports msgs, with exit status code.
Ends(by, msgs, code) ==
  /\ Report(msgs)
  /\ exited' = Exit(by, pc, Len(msgs), code)
  /\ pc' = "exit"
  /\ UNCHANGED cycle
  /\ PollFrame

\* depth.py line 54: psycopg2.connect succeeds.
Connect ==
  /\ pipeline = "depth"
  /\ pc = "connect"
  /\ pc' = "query"
  /\ UNCHANGED <<cycle, developer, exited>>
  /\ PollFrame

\* depth.py lines 58-140: one pass of the loop body, up to the sleep.
Monitor ==
  /\ pipeline = "depth"
  /\ pc = "query"
  /\ cycle.n < MaxCycles
  /\ pc' = "sleep"
  /\ cycle' = [cycle EXCEPT !.n = @ + 1]
  /\ UNCHANGED <<developer, exited>>
  /\ PollFrame

\* time.sleep(CHECK_INTERVAL) returns.
Wake ==
  /\ pc = "sleep"
  /\ pc' = IF pipeline = "depth" THEN "query" ELSE "check"
  /\ UNCHANGED <<cycle, developer, exited>>
  /\ PollFrame

\* depth.py lines 144-146: the whole function body, sleep included, is
\* inside the try.
DepthInterrupt ==
  /\ pipeline = "depth"
  /\ pc \in {"connect", "query", "sleep"}
  /\ Ends("KeyboardInterrupt", <<"Stopped by user (Ctrl+C)">>, 0)

\* depth.py lines 147-149: reported, not raised again.
DepthDatabaseError ==
  /\ pipeline = "depth"
  /\ pc \in {"connect", "query"}
  /\ Ends("psycopg2.Error", <<"Database error">>, 0)

\* depth.py lines 150-153 and 159-163: monitor_liquidity_depth reports and
\* raises again, and __main__ catches the same exception and reports too.
DepthCrash ==
  /\ pipeline = "depth"
  /\ pc = "query"
  /\ Ends("Exception", <<"Crashed with error", "Fatal error on startup">>, 1)

\* liquidation_alert.py: check_liquidations() returns; it has caught and
\* reported a database error or any other exception itself.
Check(outcome) ==
  /\ pipeline = "liquidation_alert"
  /\ pc = "check"
  /\ cycle.n < MaxCycles
  /\ cycle' = [cycle EXCEPT !.n = @ + 1]
  /\ pc' = "sleep"
  /\ Report(CASE outcome = "psycopg2.Error" -> <<"Database error">>
              [] outcome = "Exception" -> <<"Error checking liquidations">>
              [] OTHER -> <<>>)
  /\ UNCHANGED exited
  /\ PollFrame

\* liquidation_alert.py lines 180-194: only check_liquidations() is inside
\* the try; time.sleep(CHECK_INTERVAL) is after it.
LiquidationInterrupt ==
  /\ pipeline = "liquidation_alert"
  /\ pc \in {"check", "sleep"}
  /\ IF pc = "check"
     THEN Ends("KeyboardInterrupt", <<"Stopped.">>, 0)
     ELSE Ends("KeyboardInterrupt", <<>>, 130)

NextPoll ==
  \/ Connect
  \/ Monitor
  \/ Wake
  \/ DepthInterrupt
  \/ DepthDatabaseError
  \/ DepthCrash
  \/ \E outcome \in {"ok", "psycopg2.Error", "Exception"} : Check(outcome)
  \/ LiquidationInterrupt

SpecPoll == InitPoll /\ [][NextPoll]_vars

\* C25: on an interrupt or on an exception that leaves the top-level loop, a
\* daemon calls the developer channel exactly once before it ends: not zero
\* times and not twice.
C25_OneReportOnExit ==
  exited.by \in {"KeyboardInterrupt", "psycopg2.Error", "Exception"}
    => /\ exited.reports = 1
       /\ Len(developer) >= 1


\* ===================================================== big_position.py
\* The worker task stream_trades, the heartbeat task it creates for each
\* connection, and the runner that cancels the worker once.  pc is the await
\* at which the worker is suspended: "connect" (line 130), "subscribe" (132),
\* "receive" (141), "await" (185), "sleep" (195), or "ended".

MaxConnections == 3

BaseDelays == -1 .. 2
MaxDelays == 1 .. 3

\* The configuration is read without any validation (lines 46-47).
InitStream ==
  /\ pipeline = "big_position"
  /\ READ_EXISTING_AT_START = TRUE
  /\ READ_NEW_FILES_FROM_START = TRUE
  /\ files = EmptyDict /\ offsets = EmptyDict /\ buffers = EmptyDict
  /\ consumed = EmptyDict /\ yielded = EmptyDict
  /\ last = Idle /\ writes = 0
  /\ SettingsOf(2, 2, NoMarkets)
  /\ GateIdle
  /\ AppliedIdle
  /\ alert_5bps_timestamps = <<>> /\ now = 0 /\ cycle = NoCycle
  /\ env = FullEnv
  /\ pc = "connect"
  /\ walk = <<>>
  /\ started = TRUE
  /\ event_queue = <<>>
  /\ handled = 0
  /\ developer = <<>>
  /\ exited = NotExited
  /\ RECONNECT_BASE_DELAY \in BaseDelays
  /\ RECONNECT_MAX_DELAY \in MaxDelays
  /\ reconnect_delay = RECONNECT_BASE_DELAY
  /\ ws = 0
  /\ heartbeat_task = <<>>
  /\ raising = ""
  /\ cancel_requested = FALSE
  /\ slept = <<>>

Backoff_uncapped(delay, max) == delay * 2

\* min(reconnect_delay * 2, RECONNECT_MAX_DELAY)
Backoff(delay, max) == IF delay * 2 <= max THEN delay * 2 ELSE max

Awaited_any(task) == TRUE

\* `await heartbeat_task` resumes when the task has finished, by returning
\* or by being cancelled before its first step.
Awaited(task) == task.state = "done"

\* heartbeat_task.cancel(): a finished task is left as it is.
CancelTask(task) ==
  IF task.state = "done" THEN task ELSE [task EXCEPT !.state = "cancelling"]

\* The except clauses of stream_trades: the two handlers report to the
\* developer and fall through to the wait; CancelledError is not an Exception
\* and ends the coroutine; without an exception the wait comes next.
Handle(exc) ==
  CASE exc = "" ->
         /\ pc' = "sleep"
         /\ UNCHANGED developer
    [] exc = "CancelledError" ->
         /\ pc' = "ended"
         /\ UNCHANGED developer
    [] exc = "ConnectionClosed" ->
         /\ pc' = "sleep"
         /\ developer' =
              Append(developer, "big_position.py: WebSocket connection error")
    [] OTHER ->
         /\ pc' = "sleep"
         /\ developer' = Append(developer, "big_position.py: Unexpected error")

StreamRest ==
  UNCHANGED <<config, settings, tail, gate, applied, depth,
              env, walk, started, event_queue, handled, exited,
              RECONNECT_BASE_DELAY, RECONNECT_MAX_DELAY>>

\* websockets.connect(...) entered: the connection opens or the attempt
\* raises, and the exception goes to the except clauses.
Open(outcome) ==
  /\ pc = "connect"
  /\ ws < MaxConnections
  /\ ws' = ws + 1
  /\ raising' = ""
  /\ IF outcome = "ok"
     THEN pc' = "subscribe" /\ UNCHANGED developer
     ELSE Handle(outcome)
  /\ UNCHANGED <<reconnect_delay, heartbeat_task, cancel_requested, slept>>
  /\ StreamRest

\* ws.send(subscribe) returns: the heartbeat task is created and the delay is
\* reset (lines 136-137, no await in between); or it raises, and the
\* connection context is left with no heartbeat task created.
Subscribe(outcome) ==
  /\ pc = "subscribe"
  /\ IF outcome = "ok"
     THEN /\ heartbeat_task' =
               Append(heartbeat_task, [ws |-> ws, state |-> "pending"])
          /\ reconnect_delay' = RECONNECT_BASE_DELAY
          /\ pc' = "receive"
          /\ UNCHANGED developer
     ELSE /\ Handle(outcome)
          /\ UNCHANGED <<heartbeat_task, reconnect_delay>>
  /\ UNCHANGED <<ws, raising, cancel_requested, slept>>
  /\ StreamRest

\* The message loop is left: the stream ends (exc = ""), the connection
\* closes, or handling a message raises.  The finally clause cancels the
\* heartbeat task and starts awaiting it.
Leave(exc) ==
  /\ pc = "receive"
  /\ raising' = exc
  /\ heartbeat_task' =
       [heartbeat_task EXCEPT ![Len(heartbeat_task)] = CancelTask(@)]
  /\ pc' = "await"
  /\ UNCHANGED <<reconnect_delay, ws, cancel_requested, slept, developer>>
  /\ StreamRest

\* send_heartbeats takes a step: a ping fails and the task returns (line 89),
\* or the cancellation reaches it and it returns (line 91).
Heartbeat(i, failed) ==
  /\ i \in DOMAIN heartbeat_task
  /\ \/ heartbeat_task[i].state = "pending" /\ failed
     \/ heartbeat_task[i].state = "cancelling"
  /\ heartbeat_task' = [heartbeat_task EXCEPT ![i].state = "done"]
  /\ UNCHANGED <<reconnect_delay, ws, raising, cancel_requested, slept,
                 pc, developer>>
  /\ StreamRest

\* `await heartbeat_task` under suppress(CancelledError) resumes; the
\* connection context is left and the exception of the message loop, if
\* any, goes on to the except clauses.
Await ==
  /\ pc = "await"
  /\ Awaited(heartbeat_task[Len(heartbeat_task)])
  /\ Handle(raising)
  /\ raising' = ""
  /\ UNCHANGED <<reconnect_delay, ws, heartbeat_task, cancel_requested, slept>>
  /\ StreamRest

\* runner: worker.cancel(), called once.  At connect, subscribe and the wait
\* CancelledError ends the coroutine; in the message loop it runs the finally
\* clause; at `await heartbeat_task` it is passed on to the heartbeat task
\* and what comes back is suppressed.
Cancel ==
  /\ ~cancel_requested
  /\ pc # "ended"
  /\ cancel_requested' = TRUE
  /\ CASE pc \in {"connect", "subscribe", "sleep"} ->
            /\ pc' = "ended"
            /\ UNCHANGED <<heartbeat_task, raising>>
       [] pc = "receive" ->
            /\ pc' = "await"
            /\ raising' = "CancelledError"
            /\ heartbeat_task' =
                 [heartbeat_task EXCEPT ![Len(heartbeat_task)] = CancelTask(@)]
       [] OTHER ->
            /\ UNCHANGED <<pc, raising>>
            /\ heartbeat_task' =
                 [heartbeat_task EXCEPT ![Len(heartbeat_task)] = CancelTask(@)]
  /\ UNCHANGED <<reconnect_delay, ws, slept, developer>>
  /\ StreamRest

\* The connection that has just ended had been established: its subscribe
\* succeeded, so it has a heartbeat task.
Established ==
  /\ heartbeat_task # <<>>
  /\ heartbeat_task[Len(heartbeat_task)].ws = ws

\* asyncio.sleep(reconnect_delay) returns and the delay is doubled, capped.
Sleep ==
  /\ pc = "sleep"
  /\ slept' = Append(slept, [delay |-> reconnect_delay,
                             established |-> Established])
  /\ reconnect_delay' = Backoff(reconnect_delay, RECONNECT_MAX_DELAY)
  /\ pc' = "connect"
  /\ UNCHANGED <<ws, heartbeat_task, raising, cancel_requested, developer>>
  /\ StreamRest

NextStream ==
  \/ \E outcome \in {"ok", "ConnectionClosed", "Exception"} : Open(outcome)
  \/ \E outcome \in {"ok", "ConnectionClosed", "Exception"} : Subscribe(outcome)
  \/ \E exc \in {"", "ConnectionClosed", "Exception"} : Leave(exc)
  \/ \E i \in 1 .. MaxConnections + 1, failed \in BOOLEAN : Heartbeat(i, failed)
  \/ Await
  \/ Cancel
  \/ Sleep

SpecStream == InitStream /\ [][NextStream]_vars

\* What C38 says of the delay, of the waits and of the end of the loop.
BackoffHolds ==
  /\ RECONNECT_BASE_DELAY <= reconnect_delay
  /\ reconnect_delay <= RECONNECT_MAX_DELAY
  /\ pc = "connect" => Len(slept) = ws
  /\ (pc \in {"connect", "subscribe"} /\ slept # <<>>)
       => reconnect_delay =
            IF slept[Len(slept)].delay * 2 <= RECONNECT_MAX_DELAY
            THEN slept[Len(slept)].delay * 2
            ELSE RECONNECT_MAX_DELAY
  /\ \A i \in DOMAIN slept :
       slept[i].established => slept[i].delay = RECONNECT_BASE_DELAY
  /\ pc = "ended" => cancel_requested

\* C38 as stated: assuming only RECONNECT_BASE_DELAY <= RECONNECT_MAX_DELAY,
\* the delay stays between the base and the maximum, every ended connection
\* is followed by a wait of the current delay which is then doubled and
\* capped, the wait after an established connection is the base delay, and
\* the loop ends only when the worker is cancelled.
C38_Backoff ==
  RECONNECT_BASE_DELAY <= RECONNECT_MAX_DELAY => BackoffHolds

\* C38, amended: the same, assuming 0 <= RECONNECT_BASE_DELAY <=
\* RECONNECT_MAX_DELAY.
C38_BackoffAmended ==
  (0 <= RECONNECT_BASE_DELAY /\ RECONNECT_BASE_DELAY <= RECONNECT_MAX_DELAY)
    => BackoffHolds

\* Two failed attempts took the delay to the maximum, and the wait after the
\* third, established, connection is the base delay again.
C38_Witness ==
  /\ 0 < RECONNECT_BASE_DELAY
  /\ RECONNECT_BASE_DELAY < RECONNECT_MAX_DELAY
  /\ Len(slept) = 3
  /\ ~slept[2].established
  /\ slept[2].delay = RECONNECT_MAX_DELAY
  /\ slept[3].established
  /\ slept[3].delay = RECONNECT_BASE_DELAY
  /\ pc = "connect"

Alive == {i \in DOMAIN heartbeat_task : heartbeat_task[i].state # "done"}

\* C39: at most one heartbeat task is alive at any time, it belongs to the
\* current connection, and none is alive once the connection context has
\* been left (at the wait, at the next connect and subscribe, and after the
\* worker has ended), whichever way the message loop was left.
C39_OneHeartbeat ==
  /\ Cardinality(Alive) <= 1
  /\ \A i \in Alive : heartbeat_task[i].ws = ws /\ i = Len(heartbeat_task)
  /\ pc \in {"connect", "subscribe", "sleep", "ended"} => Alive = {}

\* A second connection is receiving with its heartbeat task alive, after the
\* first connection's task was cancelled by the worker's finally clause.
C39_Witness ==
  /\ Len(heartbeat_task) = 2
  /\ heartbeat_task[1].state = "done"
  /\ heartbeat_task[2].state = "pending"
  /\ pc = "receive"
  /\ slept # <<>>
  /\ slept[1].established

====
